---- MODULE Spec2Model ----
(***************************************************************************)
(* Model of the LLM load balancer: the dispatcher (LLMLoadBalancer), its   *)
(* strategies (round-robin, failover, weighted, custom) and the            *)
(* per-provider statistics.                                                *)
(*                                                                         *)
(* JavaScript runs every synchronous stretch of code to completion, so    *)
(* one action is one such stretch: from a call or a resumption after an    *)
(* await up to the next await, return or throw.                            *)
(*                                                                         *)
(* These specifications share the actions:                                 *)
(*   Spec       request() calls interleaved with addProvider,              *)
(*              removeProvider and healthCheck sweeps;                     *)
(*   SpecRetry  request() calls alone, with a larger budget of attempts;   *)
(*   SpecFailover  request() calls alone on a failover dispatcher, with a  *)
(*              budget that lets a provider take three attempts;           *)
(*   SpecLive   one request() call per caller, with room for all its       *)
(*              attempts, under the assumption that timers fire;           *)
(*   SpecManage single-attempt request() calls (maxRetries = 1)            *)
(*              interleaved with addProvider and removeProvider;           *)
(*   SpecProbe  single-attempt request() calls interleaved with            *)
(*              healthCheck sweeps;                                        *)
(*   SpecSnapshot  single-attempt calls, addProvider, removeProvider,      *)
(*              sweeps, getStats() calls and a caller that writes into the *)
(*              map getStats() returned;                                   *)
(*   SpecFrame  the same without the caller's writes;                      *)
(*   SpecNew    one constructor call on a configuration drawn from bounded *)
(*              sets, unsupported strategy kinds and provider names and a  *)
(*              missing custom function included;                          *)
(*   SpecFn     one selectProvider call of a fresh strategy on a list and  *)
(*              a statistics map drawn from bounded sets.                  *)
(*                                                                         *)
(* What the model leaves out: the adapters' HTTP traffic (an adapter call  *)
(* resolves or rejects with an LLMError that carries its name), the value  *)
(* of lastRequestTime (only whether it is set), and the timer that stays   *)
(* armed after its adapter call has won the race (its reject() meets a     *)
(* settled promise).  averageResponseTime is an exact ratio.  Each call    *)
(* keeps a log of what it did (selections, adapter calls, statistics       *)
(* updates, errors, delays, return or throw); req[r].log, flagBy, hist and *)
(* removed are history variables that no action reads to decide what to    *)
(* do.                                                                     *)
(***************************************************************************)
EXTENDS Integers, Sequences, FiniteSets, TLC

\* ------------------------------------------------------------------ bounds
MaxProviders == 2      \* longest configured provider list
MaxConcurrent == 2     \* request() calls that may be in flight together
MaxAttempts == 2       \* attempts begun over a behaviour of Spec, all calls
MaxRetryAttempts == 3  \* the same for a behaviour of SpecRetry
MaxManageAttempts == 1 \* the same for a behaviour of SpecManage
MaxFailoverAttempts == 4 \* the same for a behaviour of SpecFailover
MaxFnProviders == 3    \* longest list handed to a strategy in SpecFn
MaxMutations == 1      \* addProvider / removeProvider calls over a behaviour
MaxSweeps == 1         \* healthCheck() calls over a behaviour
MaxOrphans == 1        \* timed-out adapter calls still in flight
MaxNewProviders == 2   \* longest list handed to the constructor in SpecNew
MaxSnapshots == 1      \* getStats() calls over a behaviour
MaxSnapshotWrites == 1 \* writes of a caller into a map getStats() returned

\* ------------------------------------------------------- program constants
DefaultMaxRetries == 3
DefaultRetryDelay == 1000
DefaultTimeout == 30000
ProbeTimeout == 5000

\* ------------------------------------------------------------ input values
\* A descriptor is a ProviderConfig reduced to the fields the core reads;
\* weight = 0 and timeout = 0 stand for "unset" (both are falsy in the code).
Descriptors ==
  { [name |-> "openai", weight |-> 3, timeout |-> 0],
    [name |-> "claude", weight |-> 0, timeout |-> 7000] }

Names == { d.name : d \in Descriptors }

StrategyKinds == {"round-robin", "failover", "weighted", "custom"}

\* the value of an optional number the caller left out (undefined)
Unset == -1

\* (config.maxRetries, config.retryDelay, config.globalTimeout) as written
\* by the caller; maxRetries and retryDelay may be left out or written as 0,
\* for globalTimeout 0 stands for unset
ConfiguredSettings ==
  { <<Unset, Unset, 0>>, <<0, 0, 0>>, <<1, 10, 20000>>, <<2, 10, 0>> }
\* caller-supplied custom strategy functions: 0 is providers => providers[0],
\* 1 is providers => providers[1], 2 is a function that returns a descriptor
\* of its own (StrayDescriptor) whatever list it is given
CustomFunctions == {0, 1, 2}
StrayDescriptor == [name |-> "claude", weight |-> 0, timeout |-> 7000]
\* elapsed wall-clock milliseconds a successful attempt may measure
ElapsedValues == {2, 4}

Range(s) == { s[i] : i \in 1..Len(s) }

RECURSIVE Pow2(_)
Pow2(n) == IF n = 0 THEN 1 ELSE 2 * Pow2(n - 1)

RECURSIVE Gcd(_, _)
Gcd(a, b) == IF b = 0 THEN a ELSE Gcd(b, a % b)

\* a JavaScript number that is a ratio of two naturals, in lowest terms
Ratio(n, d) == LET g == Gcd(n, d) IN [num |-> n \div g, den |-> d \div g]

\* the names of the descriptors of a list
NamesOf(list) == { list[i].name : i \in 1..Len(list) }

\* the sequences over S of length at most n
RECURSIVE SeqsUpTo(_, _)
SeqsUpTo(S, n) ==
  IF n = 0 THEN { <<>> }
  ELSE LET shorter == SeqsUpTo(S, n - 1)
       IN shorter \cup { Append(s, x) : s \in shorter, x \in S }

\* the provider lists a dispatcher is constructed with
InitialLists ==
  { SubSeq(<< [name |-> "openai", weight |-> 3, timeout |-> 0],
              [name |-> "claude", weight |-> 0, timeout |-> 7000] >>, 1, n) :
      n \in 0..(IF MaxProviders < 2 THEN MaxProviders ELSE 2) }

\* ------------------------------------------------------------- statistics
FreshStats ==
  [ totalRequests |-> 0, successfulRequests |-> 0, failedRequests |-> 0,
    averageResponseTime |-> Ratio(0, 1), lastRequestTime |-> 0,
    isHealthy |-> TRUE ]

\* updateStats with the failure branch forgetting its counter
UpdateStatsDropFailed(st, providerName, success, responseTime) ==
  IF providerName \notin DOMAIN st THEN st
  ELSE LET s == st[providerName]
           total == s.totalRequests + 1
           succ == IF success THEN s.successfulRequests + 1
                   ELSE s.successfulRequests
       IN [st EXCEPT ![providerName] =
             [ totalRequests |-> total,
               successfulRequests |-> succ,
               failedRequests |-> s.failedRequests,
               averageResponseTime |-> s.averageResponseTime,
               lastRequestTime |-> 1,
               isHealthy |-> 2 * succ > total ]]

\* updateStats with the health flag left as it was on a failure
UpdateStatsStaleHealth(st, providerName, success, responseTime) ==
  IF providerName \notin DOMAIN st THEN st
  ELSE LET s == st[providerName]
           total == s.totalRequests + 1
           succ == IF success THEN s.successfulRequests + 1
                   ELSE s.successfulRequests
       IN [st EXCEPT ![providerName] =
             [ totalRequests |-> total,
               successfulRequests |-> succ,
               failedRequests |-> IF success THEN s.failedRequests
                                  ELSE s.failedRequests + 1,
               averageResponseTime |-> s.averageResponseTime,
               lastRequestTime |-> 1,
               isHealthy |-> IF success THEN 2 * succ > total
                             ELSE s.isHealthy ]]

\* updateStats that applies the increment of an attempt twice
UpdateStatsTwice(st, providerName, success, responseTime) ==
  IF providerName \notin DOMAIN st THEN st
  ELSE LET s == st[providerName]
           total == s.totalRequests + 2
           succ == IF success THEN s.successfulRequests + 2
                   ELSE s.successfulRequests
       IN [st EXCEPT ![providerName] =
             [ totalRequests |-> total,
               successfulRequests |-> succ,
               failedRequests |-> IF success THEN s.failedRequests
                                  ELSE s.failedRequests + 2,
               averageResponseTime |-> s.averageResponseTime,
               lastRequestTime |-> 1,
               isHealthy |-> 2 * succ > total ]]

\* updateStats that counts a success rate of one half as healthy
UpdateStatsHalfHealthy(st, providerName, success, responseTime) ==
  IF providerName \notin DOMAIN st THEN st
  ELSE LET s == st[providerName]
           total == s.totalRequests + 1
           succ == IF success THEN s.successfulRequests + 1
                   ELSE s.successfulRequests
           avg == s.averageResponseTime
       IN [st EXCEPT ![providerName] =
             [ totalRequests |-> total,
               successfulRequests |-> succ,
               failedRequests |-> IF success THEN s.failedRequests
                                  ELSE s.failedRequests + 1,
               averageResponseTime |->
                 IF success
                 THEN Ratio(avg.num * (succ - 1) + responseTime * avg.den,
                            avg.den * succ)
                 ELSE avg,
               lastRequestTime |-> 1,
               isHealthy |-> 2 * succ >= total ]]

\* updateStats that averages the response time 0 of a failure in
UpdateStatsAveragesAll(st, providerName, success, responseTime) ==
  IF providerName \notin DOMAIN st THEN st
  ELSE LET s == st[providerName]
           total == s.totalRequests + 1
           succ == IF success THEN s.successfulRequests + 1
                   ELSE s.successfulRequests
           avg == s.averageResponseTime
       IN [st EXCEPT ![providerName] =
             [ totalRequests |-> total,
               successfulRequests |-> succ,
               failedRequests |-> IF success THEN s.failedRequests
                                  ELSE s.failedRequests + 1,
               averageResponseTime |->
                 Ratio(avg.num * (total - 1) + responseTime * avg.den,
                       avg.den * total),
               lastRequestTime |-> 1,
               isHealthy |-> 2 * succ > total ]]

\* updateStats that starts an entry for a name that has none
UpdateStatsCreates(st, providerName, success, responseTime) ==
  LET s == IF providerName \in DOMAIN st THEN st[providerName] ELSE FreshStats
      total == s.totalRequests + 1
      succ == IF success THEN s.successfulRequests + 1
              ELSE s.successfulRequests
      avg == s.averageResponseTime
      entry == [ totalRequests |-> total,
                 successfulRequests |-> succ,
                 failedRequests |-> IF success THEN s.failedRequests
                                    ELSE s.failedRequests + 1,
                 averageResponseTime |->
                   IF success
                   THEN Ratio(avg.num * (succ - 1) + responseTime * avg.den,
                              avg.den * succ)
                   ELSE avg,
                 lastRequestTime |-> 1,
                 isHealthy |-> 2 * succ > total ]
  IN [ x \in DOMAIN st \cup {providerName} |->
         IF x = providerName THEN entry ELSE st[x] ]

\* updateStats(providerName, success, responseTime): the new statistics map.
\* lastRequestTime is 0 while undefined and 1 once a Date has been stored.
\* successfulRequests / totalRequests > 0.5 is 2 * successful > total.
UpdateStats(st, providerName, success, responseTime) ==
  IF providerName \notin DOMAIN st THEN st
  ELSE LET s == st[providerName]
           total == s.totalRequests + 1
           succ == IF success THEN s.successfulRequests + 1
                   ELSE s.successfulRequests
           avg == s.averageResponseTime
       IN [st EXCEPT ![providerName] =
             [ totalRequests |-> total,
               successfulRequests |-> succ,
               failedRequests |-> IF success THEN s.failedRequests
                                  ELSE s.failedRequests + 1,
               averageResponseTime |->
                 IF success
                 THEN Ratio(avg.num * (succ - 1) + responseTime * avg.den,
                            avg.den * succ)
                 ELSE avg,
               lastRequestTime |-> 1,
               isHealthy |-> 2 * succ > total ]]

\* -------------------------------------------------------------- strategies
\* The result of selectProvider: threw = TRUE when it raised an error,
\* otherwise idx is the 1-based position of the returned descriptor in the
\* list (0 when the returned value is undefined, -1 when it is the custom
\* function's own descriptor); strat is the strategy's state after the call.
Selection(threw, idx, st) == [threw |-> threw, idx |-> idx, strat |-> st]

\* WeightedStrategy.calculateWeights: the cumulative table and the total
RECURSIVE CumulativeFrom(_, _, _)
CumulativeFrom(providers, i, acc) ==
  IF i > Len(providers) THEN <<>>
  ELSE LET w == IF providers[i].weight = 0 THEN 1 ELSE providers[i].weight
       IN <<acc + w>> \o CumulativeFrom(providers, i + 1, acc + w)

CalculateWeights(providers) ==
  LET cw == CumulativeFrom(providers, 1, 0)
  IN [ cumulativeWeights |-> cw,
       totalWeight |-> IF cw = <<>> THEN 0 ELSE cw[Len(cw)] ]

\* a weighted strategy built without its table
CreateStrategyLazy(kind, providers) ==
  [ kind |-> kind, currentIndex |-> 0,
    cumulativeWeights |-> <<>>, totalWeight |-> 0 ]

\* createStrategy: a fresh strategy object of the configured kind
CreateStrategy(kind, providers) ==
  LET w == IF kind = "weighted" THEN CalculateWeights(providers)
           ELSE [cumulativeWeights |-> <<>>, totalWeight |-> 0]
  IN [ kind |-> kind, currentIndex |-> 0,
       cumulativeWeights |-> w.cumulativeWeights,
       totalWeight |-> w.totalWeight ]

\* round-robin whose cursor never moves
RoundRobinStuck(st, providers) ==
  IF Len(providers) = 0 THEN Selection(TRUE, 0, st)
  ELSE Selection(FALSE,
                 IF st.currentIndex < Len(providers)
                 THEN st.currentIndex + 1 ELSE 0,
                 st)

\* round-robin whose cursor runs past the end of the list
RoundRobinNoWrap(st, providers) ==
  IF Len(providers) = 0 THEN Selection(TRUE, 0, st)
  ELSE Selection(FALSE,
                 IF st.currentIndex < Len(providers)
                 THEN st.currentIndex + 1 ELSE 0,
                 [st EXCEPT !.currentIndex = st.currentIndex + 1])

\* RoundRobinStrategy.selectProvider
RoundRobinSelect(st, providers) ==
  IF Len(providers) = 0 THEN Selection(TRUE, 0, st)
  ELSE Selection(FALSE,
                 IF st.currentIndex < Len(providers)
                 THEN st.currentIndex + 1 ELSE 0,
                 [st EXCEPT !.currentIndex =
                    (st.currentIndex + 1) % Len(providers)])

\* the for-loop of FailoverStrategy.selectProvider, from position i on
RECURSIVE FailoverScan(_, _, _)
FailoverScan(providers, st, i) ==
  IF i > Len(providers) THEN 1
  ELSE IF providers[i].name \notin DOMAIN st \/ st[providers[i].name].isHealthy
       THEN i
       ELSE FailoverScan(providers, st, i + 1)

\* failover that only accepts providers with a healthy entry
FailoverNeedsEntry(st, providers, stats) ==
  IF Len(providers) = 0 THEN Selection(TRUE, 0, st)
  ELSE LET ok == { i \in 1..Len(providers) :
                     /\ providers[i].name \in DOMAIN stats
                     /\ stats[providers[i].name].isHealthy }
       IN Selection(FALSE,
                    IF ok = {} THEN 1
                    ELSE CHOOSE i \in ok : \A j \in ok : i <= j,
                    st)

\* failover that uses the last provider when none is healthy
FailoverFallsToLast(st, providers, stats) ==
  IF Len(providers) = 0 THEN Selection(TRUE, 0, st)
  ELSE LET ok == { i \in 1..Len(providers) :
                     \/ providers[i].name \notin DOMAIN stats
                     \/ stats[providers[i].name].isHealthy }
       IN Selection(FALSE,
                    IF ok = {} THEN Len(providers)
                    ELSE CHOOSE i \in ok : \A j \in ok : i <= j,
                    st)

\* failover that stays on the first provider
FailoverSticks(st, providers, stats) ==
  IF Len(providers) = 0 THEN Selection(TRUE, 0, st)
  ELSE Selection(FALSE, 1, st)

\* FailoverStrategy.selectProvider
FailoverSelect(st, providers, stats) ==
  IF Len(providers) = 0 THEN Selection(TRUE, 0, st)
  ELSE Selection(FALSE, FailoverScan(providers, stats, 1), st)

\* a scan that passes over a cumulative weight equal to the draw
WeightedScanStrict(cw, n, draw2, i) ==
  LET above == { j \in 1..Len(cw) : draw2 < 2 * cw[j] }
  IN IF above = {} THEN n
     ELSE LET first == CHOOSE j \in above : \A k \in above : j <= k
          IN IF first <= n THEN first ELSE 0

\* the selection loop of WeightedStrategy.selectProvider; draw2 is twice the
\* value of Math.random() * totalWeight, so draws are multiples of one half
RECURSIVE WeightedScan(_, _, _, _)
WeightedScan(cw, n, draw2, i) ==
  IF i > Len(cw) THEN n
  ELSE IF draw2 <= 2 * cw[i] THEN (IF i <= n THEN i ELSE 0)
       ELSE WeightedScan(cw, n, draw2, i + 1)

\* WeightedStrategy.selectProvider, with the table recomputed when its
\* length differs from the list's
WeightedTable(st, providers) ==
  IF Len(st.cumulativeWeights) # Len(providers)
  THEN LET w == CalculateWeights(providers)
       IN [st EXCEPT !.cumulativeWeights = w.cumulativeWeights,
                     !.totalWeight = w.totalWeight]
  ELSE st

\* a weighted strategy that ignores the weights
WeightedSelectUniform(st, providers, draw2) ==
  IF Len(providers) = 0 THEN Selection(TRUE, 0, st)
  ELSE Selection(FALSE, ((draw2 \div 2) % Len(providers)) + 1,
                 WeightedTable(st, providers))

WeightedSelect(st, providers, draw2) ==
  IF Len(providers) = 0 THEN Selection(TRUE, 0, st)
  ELSE LET t == WeightedTable(st, providers)
       IN Selection(FALSE,
                    WeightedScan(t.cumulativeWeights, Len(providers), draw2, 1),
                    t)

\* a custom strategy that ignores the caller's function
CustomSelectFirst(st, providers, fn) ==
  Selection(FALSE, IF Len(providers) > 0 THEN 1 ELSE 0, st)

\* CustomStrategy.selectProvider with the caller's function providers[fn]
CustomSelect(st, providers, fn) ==
  Selection(FALSE,
            IF fn = 2 THEN -1
            ELSE IF fn + 1 <= Len(providers) THEN fn + 1 ELSE 0,
            st)

\* the descriptor a selection returned
Selected(sel, providers) ==
  IF sel.idx = -1 THEN StrayDescriptor ELSE providers[sel.idx]

\* this.strategy.selectProvider(this.config.providers, this.stats)
SelectProvider(st, providers, stats, fn, draw2) ==
  CASE st.kind = "round-robin" -> RoundRobinSelect(st, providers)
    [] st.kind = "failover" -> FailoverSelect(st, providers, stats)
    [] st.kind = "weighted" -> WeightedSelect(st, providers, draw2)
    [] OTHER -> CustomSelect(st, providers, fn)

\* the draws Math.random() * totalWeight can yield for the strategy's table
Draws(st, providers) ==
  IF st.kind = "weighted" /\ Len(providers) > 0
  THEN 0..(2 * WeightedTable(st, providers).totalWeight - 1)
  ELSE {0}

\* ------------------------------------------------------------------- state
VARIABLES
  config,       \* this.config: strategy kind, provider list, retry settings
  providers,    \* this.providers: the names that have an adapter instance
  strategy,     \* this.strategy: the current strategy object
  stats,        \* this.stats: provider name -> ProviderStats
  req,          \* the request() calls, one per caller slot
  orphans,      \* adapter calls still in flight after their timer won
  hc,           \* the healthCheck() call
  nAttempts,    \* attempts begun so far, all calls together
  budget,       \* the attempts a behaviour may begin (fixed by Init)
  nMutations,   \* addProvider / removeProvider calls so far
  nSweeps,      \* healthCheck() calls so far
  flagBy,       \* history: who wrote each provider's isHealthy flag last
  hist,         \* history: the run of sequential first-attempt successes
  removed,      \* history: the names removed and not added again since
  snap,         \* the map a caller holds from its last getStats() call
  ctor,         \* the constructor call under test, its argument and outcome
  fn            \* the strategy function under test, its inputs and result

vars == << config, providers, strategy, stats, req, orphans, hc,
           nAttempts, budget, nMutations, nSweeps, flagBy, hist, removed,
           snap, ctor, fn >>

Reqs == 1..MaxConcurrent

\* the values JavaScript's || passes over: undefined and 0
Falsy(x) == x = Unset \/ x = 0

\* maxRetries read with ??, which passes over undefined only
MaxRetriesNullish == IF config.maxRetries = Unset THEN DefaultMaxRetries
                     ELSE config.maxRetries

\* const maxRetries = this.config.maxRetries || 3
MaxRetries == IF Falsy(config.maxRetries) THEN DefaultMaxRetries
              ELSE config.maxRetries

\* const retryDelay = this.config.retryDelay || 1000
RetryDelay == IF Falsy(config.retryDelay) THEN DefaultRetryDelay
              ELSE config.retryDelay

\* the derivation with the dispatcher's global timeout tried first
TimeoutGlobalFirst(descriptorTimeout) ==
  IF config.globalTimeout # 0 THEN config.globalTimeout
  ELSE IF descriptorTimeout # 0 THEN descriptorTimeout
  ELSE DefaultTimeout

\* const timeout = config.timeout || this.config.globalTimeout || 30000
Timeout(descriptorTimeout) ==
  IF descriptorTimeout # 0 THEN descriptorTimeout
  ELSE IF config.globalTimeout # 0 THEN config.globalTimeout
  ELSE DefaultTimeout

\* one entry of a call's event log
Ev(e, p, n) == << e, p, n >>

\* new LLMError(message, provider, statusCode); attempt identifies the object
LLMError(provider, kind, attempt) ==
  [ provider |-> provider, kind |-> kind,
    statusCode |-> IF kind = "api" THEN 500 ELSE 0, attempt |-> attempt ]

IdleRequest ==
  [ pc |-> "idle", attempt |-> 0, selected |-> "-", timeout |-> 0,
    errors |-> <<>>, log |-> <<>>, response |-> "-" ]

InFlight(r) == req[r].pc \in {"waiting", "delaying"}

FreshHist == [clean |-> TRUE, served |-> <<>>]
DirtyHist == [clean |-> FALSE, served |-> <<>>]

IdleSweep == [pc |-> "idle", probes |-> <<>>, status |-> << >>]

\* no constructor call is under test
NoInstance == [ made |-> FALSE, adapters |-> {}, stats |-> << >>,
                strategy |-> CreateStrategy("-", <<>>) ]
NoConstruction ==
  [ pc |-> "off", strategy |-> "-", customStrategy |-> 0, providers |-> <<>>,
    instance |-> NoInstance ]

\* A caller's snapshot.  { ...this.stats } copies the map, not the entries:
\* refs[n].live says that the snapshot's entry for n is still the object
\* this.stats[n]; once the dispatcher has replaced or deleted that entry the
\* snapshot keeps the old object, whose value is refs[n].last.  at is the
\* statistics as they were when getStats() returned (history).
NoSnapshot ==
  [ taken |-> FALSE, calls |-> 0, writes |-> 0, refs |-> << >>, at |-> << >> ]
NoSelection == Selection(FALSE, 0, CreateStrategy("-", <<>>))
IdleFn == [ pc |-> "off", kind |-> "-", providers |-> <<>>, stats |-> << >>,
            cf |-> 0, draw2 |-> 0, result |-> NoSelection ]

\* initializeProviders: one adapter and one zeroed entry per descriptor
InitialStats(list) == [ n \in { d.name : d \in Range(list) } |-> FreshStats ]

\* the state after new LLMLoadBalancer(config)
InitDispatcher ==
  /\ \E kind \in StrategyKinds, list \in InitialLists,
        cs \in ConfiguredSettings, cf \in CustomFunctions :
       /\ kind # "custom" => cf = 0
       /\ config = [ strategy |-> kind, providers |-> list,
                     maxRetries |-> cs[1], retryDelay |-> cs[2],
                     globalTimeout |-> cs[3], customFn |-> cf ]
       /\ providers = { d.name : d \in Range(list) }
       /\ stats = InitialStats(list)
       /\ strategy = CreateStrategy(kind, list)
       /\ flagBy = [ n \in { d.name : d \in Range(list) } |-> "init" ]
  /\ req = [ r \in Reqs |-> IdleRequest ]
  /\ orphans = {}
  /\ hc = IdleSweep
  /\ nAttempts = 0
  /\ nMutations = 0
  /\ nSweeps = 0
  /\ hist = FreshHist
  /\ removed = {}
  /\ snap = NoSnapshot
  /\ ctor = NoConstruction

Init == InitDispatcher /\ budget = MaxAttempts /\ fn = IdleFn

InitRetry == InitDispatcher /\ budget = MaxRetryAttempts /\ fn = IdleFn

\* a dispatcher constructed with the failover strategy
InitFailover ==
  /\ InitDispatcher
  /\ config.strategy = "failover"
  /\ budget = MaxFailoverAttempts
  /\ fn = IdleFn

\* every call may run all its attempts
InitLive ==
  InitDispatcher /\ budget = MaxConcurrent * DefaultMaxRetries /\ fn = IdleFn

\* a dispatcher configured with maxRetries = 1
InitManage ==
  /\ InitDispatcher
  /\ config.maxRetries = 1
  /\ budget = MaxManageAttempts
  /\ fn = IdleFn

\* ---------------------------------------------------------------- request
\* a normalisation that keeps the name of the selected descriptor
NormalizeKeepsName(provider, kind) == provider

\* error instanceof LLMError ? error : new LLMError(message, 'unknown'): the
\* provider an attempt's error is tagged with.  The adapters and the timer
\* raise LLMErrors ("api", "timeout"); a failed selection or adapter lookup
\* raises a plain Error ("internal").
Normalize(provider, kind) ==
  IF kind \in {"api", "timeout"} THEN provider ELSE "unknown"

\* the catch block that forgets the error of a retried attempt
CatchDropsError(rq, provider, kind) ==
  LET last == ~(rq.attempt < MaxRetries - 1)
      ms == RetryDelay * Pow2(rq.attempt)
      charged == << Ev("err", provider, rq.attempt) >> \o
                 (IF provider # "unknown"
                  THEN << Ev("statFail", provider, rq.attempt) >> ELSE <<>>)
  IN [ rq EXCEPT
         !.pc = IF last THEN "failed" ELSE "delaying",
         !.errors = IF last THEN Append(rq.errors,
                                        LLMError(provider, kind, rq.attempt))
                    ELSE rq.errors,
         !.log = rq.log \o charged \o
                 (IF last THEN << Ev("throw", "-", Len(rq.errors) + 1) >>
                  ELSE << Ev("delay", "-", ms) >>) ]

\* the catch block that resumes the loop without awaiting a delay
CatchNoDelay(rq, provider, kind) ==
  LET last == ~(rq.attempt < MaxRetries - 1)
      errs == Append(rq.errors, LLMError(provider, kind, rq.attempt))
      charged == << Ev("err", provider, rq.attempt) >> \o
                 (IF provider # "unknown"
                  THEN << Ev("statFail", provider, rq.attempt) >> ELSE <<>>)
  IN [ rq EXCEPT
         !.pc = IF last THEN "failed" ELSE "delaying",
         !.errors = errs,
         !.log = rq.log \o charged \o
                 (IF last THEN << Ev("throw", "-", Len(errs)) >> ELSE <<>>) ]

\* the catch block with the same delay before every retry
CatchConstantDelay(rq, provider, kind) ==
  LET last == ~(rq.attempt < MaxRetries - 1)
      ms == RetryDelay
      errs == Append(rq.errors, LLMError(provider, kind, rq.attempt))
      charged == << Ev("err", provider, rq.attempt) >> \o
                 (IF provider # "unknown"
                  THEN << Ev("statFail", provider, rq.attempt) >> ELSE <<>>)
  IN [ rq EXCEPT
         !.pc = IF last THEN "failed" ELSE "delaying",
         !.errors = errs,
         !.log = rq.log \o charged \o
                 (IF last THEN << Ev("throw", "-", Len(errs)) >>
                  ELSE << Ev("delay", "-", ms) >>) ]

\* the catch block of a loop that runs while attempt <= maxRetries
CatchOneMore(rq, provider, kind) ==
  LET last == ~(rq.attempt < MaxRetries)
      ms == RetryDelay * Pow2(rq.attempt)
      errs == Append(rq.errors, LLMError(provider, kind, rq.attempt))
      charged == << Ev("err", provider, rq.attempt) >> \o
                 (IF provider # "unknown"
                  THEN << Ev("statFail", provider, rq.attempt) >> ELSE <<>>)
  IN [ rq EXCEPT
         !.pc = IF last THEN "failed" ELSE "delaying",
         !.errors = errs,
         !.log = rq.log \o charged \o
                 (IF last THEN << Ev("throw", "-", Len(errs)) >>
                  ELSE << Ev("delay", "-", ms) >>) ]

\* The catch block of request() for the attempt rq.attempt, up to its await
\* of the backoff delay or, after the last attempt, up to the throw of the
\* LoadBalancerError that follows the loop.
Catch(rq, provider, kind) ==
  LET last == ~(rq.attempt < MaxRetries - 1)
      ms == RetryDelay * Pow2(rq.attempt)
      errs == Append(rq.errors, LLMError(provider, kind, rq.attempt))
      charged == << Ev("err", provider, rq.attempt) >> \o
                 (IF provider # "unknown"
                  THEN << Ev("statFail", provider, rq.attempt) >> ELSE <<>>)
  IN [ rq EXCEPT
         !.pc = IF last THEN "failed" ELSE "delaying",
         !.errors = errs,
         !.log = rq.log \o charged \o
                 (IF last THEN << Ev("throw", "-", Len(errs)) >>
                  ELSE << Ev("delay", "-", ms) >>) ]

\* a catch block that charges every provider for an unattributed error
CatchStatsBlamesAll(st, provider) ==
  IF provider # "unknown" THEN UpdateStats(st, provider, FALSE, 0)
  ELSE [ n \in DOMAIN st |-> UpdateStats(st, n, FALSE, 0)[n] ]

\* a catch block that charges nobody
CatchStatsSkips(st, provider) == st

\* the statistics after the catch block: only named providers are charged
CatchStats(st, provider) ==
  IF provider # "unknown" THEN UpdateStats(st, provider, FALSE, 0) ELSE st

\* the success path that falls through to the backoff instead of returning
SucceedKeepsLooping(rq, elapsed) ==
  [ rq EXCEPT
      !.pc = IF rq.attempt < MaxRetries - 1 THEN "delaying" ELSE "success",
      !.response = rq.selected,
      !.log = rq.log \o << Ev("statOk", rq.selected, rq.attempt) >> \o
              (IF rq.attempt < MaxRetries - 1
               THEN << Ev("delay", "-", RetryDelay * Pow2(rq.attempt)) >>
               ELSE << Ev("return", rq.selected, rq.attempt) >>) ]

\* the try block of request() after the awaited race resolved: the
\* statistics update and the return of the adapter's response
Succeed(rq, elapsed) ==
  [ rq EXCEPT
      !.pc = "success",
      !.response = rq.selected,
      !.log = rq.log \o << Ev("statOk", rq.selected, rq.attempt),
                           Ev("return", rq.selected, rq.attempt) >> ]

\* the history of sequential first-attempt successes after a call started
HistOnStart(r) ==
  IF hist.clean /\ \A o \in Reqs \ {r} : ~InFlight(o) THEN hist ELSE DirtyHist

\* One loop iteration of request() from its head to the first await: the
\* selection, the adapter lookup and the start of the timeout race, or the
\* catch block when one of the first two throws.
RunAttempt(r, rq, draw2, h) ==
  LET sel == SelectProvider(strategy, config.providers, stats,
                            config.customFn, draw2)
      found == ~sel.threw /\ sel.idx # 0
      d == Selected(sel, config.providers)
  IN /\ nAttempts' = nAttempts + 1
     /\ strategy' = sel.strat
     /\ IF found /\ d.name \in providers
        THEN /\ req' = [req EXCEPT ![r] =
                  [ rq EXCEPT !.pc = "waiting",
                              !.selected = d.name,
                              !.timeout = Timeout(d.timeout),
                              !.log = rq.log \o
                                 << Ev("select", d.name, rq.attempt),
                                    Ev("call", d.name, rq.attempt) >> ]]
             /\ hist' = h
        ELSE /\ req' = [req EXCEPT ![r] =
                  Catch([rq EXCEPT !.selected =
                           IF found THEN d.name ELSE "-",
                         !.log = IF found
                                 THEN Append(rq.log,
                                        Ev("select", d.name, rq.attempt))
                                 ELSE rq.log],
                        Normalize(IF found THEN d.name ELSE "-", "internal"),
                        "internal")]
             /\ hist' = DirtyHist
     /\ stats' = IF found /\ d.name \in providers THEN stats
                 ELSE CatchStats(stats,
                        Normalize(IF found THEN d.name ELSE "-", "internal"))

\* request(request): a caller issues a call; it runs to its first await
Request(r) ==
  /\ ~InFlight(r)
  /\ nAttempts < budget
  /\ \E draw2 \in Draws(strategy, config.providers) :
       RunAttempt(r, IdleRequest, draw2, HistOnStart(r))
  /\ UNCHANGED << ctor, config, providers, orphans, hc, nMutations, nSweeps,
                  flagBy, fn, budget, removed, snap >>

\* who wrote the isHealthy flag of a provider that has a statistics entry
Wrote(fb, st, name, who) ==
  IF name \in DOMAIN st THEN [fb EXCEPT ![name] = who] ELSE fb

\* a late settlement that is charged to the provider's statistics
ChargedSettlement(st, provider, success) ==
  UpdateStats(st, provider, success, 0)

\* Promise.race has settled with the timer's rejection; what the adapter
\* call's later settlement does to the statistics: nothing
IgnoredSettlement(st, provider, success) == st

\* The adapter call of the awaited race resolves first.  (The timer stays
\* armed; when it fires, its reject() meets a settled promise.)
AdapterResolve(r) ==
  /\ req[r].pc = "waiting"
  /\ \E elapsed \in ElapsedValues :
       /\ req' = [req EXCEPT ![r] = Succeed(req[r], elapsed)]
       /\ stats' = UpdateStats(stats, req[r].selected, TRUE, elapsed)
  /\ flagBy' = Wrote(flagBy, stats, req[r].selected, "update")
  /\ hist' = IF hist.clean /\ req[r].attempt = 0 /\ req'[r].pc = "success"
             THEN [hist EXCEPT !.served = Append(@, req'[r].response)]
             ELSE DirtyHist
  /\ UNCHANGED << ctor, config, providers, strategy, orphans, hc, nAttempts,
                  nMutations, nSweeps, fn, budget, removed, snap >>

\* the adapter call of the awaited race rejects first (handleError throws an
\* LLMError that carries the adapter's name)
AdapterReject(r) ==
  /\ req[r].pc = "waiting"
  /\ req' = [req EXCEPT ![r] =
              Catch(req[r], Normalize(req[r].selected, "api"), "api")]
  /\ stats' = CatchStats(stats, Normalize(req[r].selected, "api"))
  /\ flagBy' = Wrote(flagBy, stats, req[r].selected, "update")
  /\ hist' = DirtyHist
  /\ UNCHANGED << ctor, config, providers, strategy, orphans, hc, nAttempts,
                  nMutations, nSweeps, fn, budget, removed, snap >>

\* the timer of the awaited race fires first; the adapter call stays in flight
TimeoutFire(r) ==
  /\ req[r].pc = "waiting"
  /\ Cardinality(orphans) < MaxOrphans
  /\ req' = [req EXCEPT ![r] =
              Catch(req[r], Normalize(req[r].selected, "timeout"), "timeout")]
  /\ stats' = CatchStats(stats, Normalize(req[r].selected, "timeout"))
  /\ flagBy' = Wrote(flagBy, stats, req[r].selected, "update")
  /\ orphans' = orphans \cup { req[r].selected }
  /\ hist' = DirtyHist
  /\ UNCHANGED << ctor, config, providers, strategy, hc, nAttempts, nMutations,
                  nSweeps, fn, budget, removed, snap >>

\* the backoff timer fires: attempt++ and the next loop iteration
DelayFire(r) ==
  /\ req[r].pc = "delaying"
  /\ nAttempts < budget
  /\ \E draw2 \in Draws(strategy, config.providers) :
       RunAttempt(r, [req[r] EXCEPT !.attempt = @ + 1], draw2, hist)
  /\ UNCHANGED << ctor, config, providers, orphans, hc, nMutations, nSweeps,
                  flagBy, fn, budget, removed, snap >>

\* an adapter call settles after its timer has won the race
LateSettle(o) ==
  /\ o \in orphans
  /\ orphans' = orphans \ {o}
  /\ \E success \in BOOLEAN :
       stats' = IgnoredSettlement(stats, o, success)
  /\ UNCHANGED << ctor, config, providers, strategy, req, hc, nAttempts,
                  nMutations, nSweeps, flagBy, hist, fn, budget, removed, snap >>

\* ---------------------------------------------------- provider management
Put(f, k, v) == [ x \in DOMAIN f \cup {k} |-> IF x = k THEN v ELSE f[x] ]
\* a delete that leaves the key in place
DropKeeps(f, k) == f

\* delete f[k]
Drop(f, k) == [ x \in DOMAIN f \ {k} |-> f[x] ]

\* a filter that drops the last descriptor, whatever its name
FilterDropsLast(list, name) ==
  IF list = <<>> THEN <<>> ELSE SubSeq(list, 1, Len(list) - 1)

\* a filter that leaves the list as it is
FilterKeeps(list, name) == list

\* this.config.providers.filter((p) => p.name !== providerName)
RECURSIVE Filter(_, _)
Filter(list, name) ==
  IF list = <<>> THEN <<>>
  ELSE IF Head(list).name # name
       THEN << Head(list) >> \o Filter(Tail(list), name)
       ELSE Filter(Tail(list), name)

\* a rebuild that carries the old strategy's cursor over
RebuildKeepsCursor(old, kind, list) ==
  [ CreateStrategy(kind, list) EXCEPT !.currentIndex = old.currentIndex ]

\* this.strategy = createStrategy(this.config.strategy,
\* this.config.providers, this.config.customStrategy): the strategy object
\* old is replaced by a new one
Rebuild(old, kind, list) == CreateStrategy(kind, list)

HistOnRebuild ==
  IF \E r \in Reqs : InFlight(r) THEN DirtyHist ELSE FreshHist

\* this.stats[name] is assigned a new object or deleted: a snapshot that
\* refers to the old object keeps it
Detach(sn, st, name) ==
  IF name \in DOMAIN sn.refs /\ sn.refs[name].live
  THEN [sn EXCEPT !.refs[name] = [live |-> FALSE, last |-> st[name]]]
  ELSE sn

\* addProvider that leaves the entry of a name that is already registered
RegisterKeepsEntry(st, name) ==
  IF name \in DOMAIN st THEN st ELSE Put(st, name, FreshStats)

\* this.stats[config.name] = { zeroed counters, isHealthy: true }
Register(st, name) == Put(st, name, FreshStats)

\* addProvider(config)
AddProvider(d) ==
  /\ nMutations < MaxMutations
  /\ Len(config.providers) < MaxProviders
  /\ nMutations' = nMutations + 1
  /\ providers' = providers \cup {d.name}
  /\ config' = [config EXCEPT !.providers = Append(@, d)]
  /\ stats' = Register(stats, d.name)
  /\ strategy' = Rebuild(strategy, config.strategy, config'.providers)
  /\ flagBy' = Put(flagBy, d.name, "init")
  /\ hist' = HistOnRebuild
  /\ removed' = removed \ {d.name}
  /\ snap' = Detach(snap, stats, d.name)
  /\ UNCHANGED << ctor, req, orphans, hc, nAttempts, nSweeps, fn, budget >>

\* removeProvider(providerName)
RemoveProvider(name) ==
  /\ nMutations < MaxMutations
  /\ nMutations' = nMutations + 1
  /\ providers' = providers \ {name}
  /\ config' = [config EXCEPT !.providers = Filter(@, name)]
  /\ stats' = Drop(stats, name)
  /\ strategy' = Rebuild(strategy, config.strategy, config'.providers)
  /\ flagBy' = Drop(flagBy, name)
  /\ hist' = HistOnRebuild
  /\ removed' = removed \cup {name}
  /\ snap' = Detach(snap, stats, name)
  /\ UNCHANGED << ctor, req, orphans, hc, nAttempts, nSweeps, fn, budget >>

\* ------------------------------------------------------------ the getters
\* a filter that lets every descriptor through
HealthyOfAll(list, st) == list

\* getHealthyProviders(): the configured descriptors, in order, whose
\* this.stats[name]?.isHealthy is not false
RECURSIVE HealthyOf(_, _)
HealthyOf(list, st) ==
  IF list = <<>> THEN <<>>
  ELSE (IF Head(list).name \in DOMAIN st /\ ~st[Head(list).name].isHealthy
        THEN <<>> ELSE << Head(list) >>) \o HealthyOf(Tail(list), st)

GetHealthyProviders == HealthyOf(config.providers, stats)

\* what the caller reads in its snapshot
SnapshotView ==
  [ n \in DOMAIN snap.refs |->
      IF snap.refs[n].live THEN stats[n] ELSE snap.refs[n].last ]

\* { ...this.stats }: a new map whose values are the entries of this.stats
ShallowCopy(st) == [ n \in DOMAIN st |-> [live |-> TRUE, last |-> st[n]] ]

\* getStats()
GetStats ==
  /\ snap.calls < MaxSnapshots
  /\ snap' = [ taken |-> TRUE, calls |-> snap.calls + 1, writes |-> snap.writes,
               refs |-> ShallowCopy(stats), at |-> stats ]
  /\ UNCHANGED << ctor, config, providers, strategy, stats, req, orphans, hc,
                  nAttempts, budget, nMutations, nSweeps, flagBy, hist,
                  removed, fn >>

\* the fields a caller writes in an entry of its snapshot
WriteKinds == {"counter", "flag"}

Written(e, kind) ==
  IF kind = "counter" THEN [e EXCEPT !.totalRequests = @ + 1]
  ELSE [e EXCEPT !.isHealthy = ~@]

\* the caller assigns to a field of snapshot[n]
SnapshotWrite(n, kind) ==
  /\ snap.taken
  /\ snap.writes < MaxSnapshotWrites
  /\ n \in DOMAIN snap.refs
  /\ IF snap.refs[n].live
     THEN /\ stats' = [stats EXCEPT ![n] = Written(@, kind)]
          /\ snap' = [snap EXCEPT !.writes = @ + 1]
     ELSE /\ stats' = stats
          /\ snap' = [snap EXCEPT !.writes = @ + 1,
                                  !.refs[n].last = Written(@, kind)]
  /\ UNCHANGED << ctor, config, providers, strategy, req, orphans, hc, nAttempts,
                  budget, nMutations, nSweeps, flagBy, hist, removed, fn >>

\* ------------------------------------------------------------ health sweep
\* the probes healthCheck() starts, in list order: a descriptor without an
\* adapter is reported false at once, the others await their race
RECURSIVE StartProbes(_, _, _)
StartProbes(list, i, sweep) ==
  IF i > Len(list) THEN sweep
  ELSE LET name == list[i].name
           has == name \in providers
       IN StartProbes(list, i + 1,
            [ sweep EXCEPT
                !.probes = Append(@, [ name |-> name, pending |-> has,
                                       rejected |-> FALSE, outcome |-> "-",
                                       timeout |-> Timeout(ProbeTimeout) ]),
                !.status = IF has THEN @ ELSE Put(@, name, FALSE) ])

\* Promise.all in place of Promise.allSettled: a rejected callback fails
\* the sweep
SweepPcAll(probes) ==
  IF \E i \in 1..Len(probes) : probes[i].rejected THEN "failed"
  ELSE IF \E i \in 1..Len(probes) : probes[i].pending THEN "running"
  ELSE "done"

\* await Promise.allSettled(healthCheckPromises); return healthStatus: the
\* sweep returns once no callback is pending, rejected ones included
SweepPc(probes) ==
  IF \E i \in 1..Len(probes) : probes[i].pending THEN "running" ELSE "done"

\* healthCheck(): up to the await of Promise.allSettled
HealthCheck ==
  /\ hc.pc # "running"
  /\ nSweeps < MaxSweeps
  /\ nSweeps' = nSweeps + 1
  /\ LET sweep == StartProbes(config.providers, 1, IdleSweep)
     IN hc' = [sweep EXCEPT !.pc = SweepPc(sweep.probes)]
  /\ UNCHANGED << ctor, config, providers, strategy, stats, req, orphans,
                  nAttempts, nMutations, flagBy, hist, fn, budget, removed, snap >>

\* a probe that is recorded like an attempt of request()
ProbeFlagDerived(st, name, healthy) == UpdateStats(st, name, healthy, 0)

\* this.stats[providerConfig.name].isHealthy = true / false
ProbeFlag(st, name, healthy) == [st EXCEPT ![name].isHealthy = healthy]

\* a verdict that goes by the probe's outcome alone
ProbeVerdictByOutcome(outcome, known) == outcome = "ok"

\* healthStatus[name] when the callback is over: true only if the race
\* resolved and the write to this.stats[name].isHealthy did not throw; with
\* no entry the write throws a TypeError, the catch block stores false and
\* its own write throws again
ProbeVerdict(outcome, known) == outcome = "ok" /\ known

\* One probe's race settles (ok: the adapter call resolved; fail: it
\* rejected or the 5000 ms timer fired) and the rest of its callback runs.
\* Writing the flag of a provider without a statistics entry throws: in the
\* try block that leads into the catch block, in the catch block it rejects
\* the callback's promise (rejected), after healthStatus[name] = false.
\* outcome keeps how the race settled (history).
ProbeSettle(i, outcome) ==
  /\ hc.pc = "running"
  /\ i \in 1..Len(hc.probes)
  /\ hc.probes[i].pending
  /\ LET name == hc.probes[i].name
         known == name \in DOMAIN stats
         healthy == ProbeVerdict(outcome, known)
         probes == [hc.probes EXCEPT ![i].pending = FALSE,
                                     ![i].rejected = ~known,
                                     ![i].outcome = outcome]
     IN /\ hc' = [ pc |-> SweepPc(probes), probes |-> probes,
                   status |-> Put(hc.status, name, healthy) ]
        /\ stats' = IF known THEN ProbeFlag(stats, name, healthy) ELSE stats
        /\ flagBy' = Wrote(flagBy, stats, name, "probe")
  /\ UNCHANGED << ctor, config, providers, strategy, req, orphans, nAttempts,
                  nMutations, nSweeps, hist, fn, budget, removed, snap >>

ProbeOutcomes == {"ok", "fail"}

Next ==
  \/ \E r \in Reqs : Request(r)
  \/ \E r \in Reqs : AdapterResolve(r)
  \/ \E r \in Reqs : AdapterReject(r)
  \/ \E r \in Reqs : TimeoutFire(r)
  \/ \E r \in Reqs : DelayFire(r)
  \/ \E o \in orphans : LateSettle(o)
  \/ \E d \in Descriptors : AddProvider(d)
  \/ \E n \in Names : RemoveProvider(n)
  \/ HealthCheck
  \/ \E i \in 1..MaxProviders, outcome \in ProbeOutcomes : ProbeSettle(i, outcome)

Spec == Init /\ [][Next]_vars

\* request() calls on a dispatcher nobody reconfigures or sweeps
NextRetry ==
  \/ \E r \in Reqs : Request(r)
  \/ \E r \in Reqs : AdapterResolve(r)
  \/ \E r \in Reqs : AdapterReject(r)
  \/ \E r \in Reqs : TimeoutFire(r)
  \/ \E r \in Reqs : DelayFire(r)
  \/ \E o \in orphans : LateSettle(o)

SpecRetry == InitRetry /\ [][NextRetry]_vars

\* single-attempt calls on a dispatcher that is reconfigured meanwhile
NextManage ==
  \/ \E r \in Reqs : Request(r)
  \/ \E r \in Reqs : AdapterResolve(r)
  \/ \E r \in Reqs : AdapterReject(r)
  \/ \E r \in Reqs : TimeoutFire(r)
  \/ \E o \in orphans : LateSettle(o)
  \/ \E d \in Descriptors : AddProvider(d)
  \/ \E n \in Names : RemoveProvider(n)

SpecManage == InitManage /\ [][NextManage]_vars

\* single-attempt calls, reconfigurations and sweeps on a dispatcher whose
\* caller takes snapshots of the statistics and writes into them
NextSnapshot ==
  \/ \E r \in Reqs : Request(r)
  \/ \E r \in Reqs : AdapterResolve(r)
  \/ \E r \in Reqs : AdapterReject(r)
  \/ \E r \in Reqs : TimeoutFire(r)
  \/ \E o \in orphans : LateSettle(o)
  \/ \E d \in Descriptors : AddProvider(d)
  \/ \E n \in Names : RemoveProvider(n)
  \/ HealthCheck
  \/ \E i \in 1..MaxProviders, outcome \in ProbeOutcomes : ProbeSettle(i, outcome)
  \/ GetStats
  \/ \E n \in Names, kind \in WriteKinds : SnapshotWrite(n, kind)

SpecSnapshot == InitManage /\ [][NextSnapshot]_vars

\* the dispatcher's operations, getStats() included, with callers that only
\* read what getStats() returned
NextFrame ==
  \/ \E r \in Reqs : Request(r)
  \/ \E r \in Reqs : AdapterResolve(r)
  \/ \E r \in Reqs : AdapterReject(r)
  \/ \E r \in Reqs : TimeoutFire(r)
  \/ \E o \in orphans : LateSettle(o)
  \/ \E d \in Descriptors : AddProvider(d)
  \/ \E n \in Names : RemoveProvider(n)
  \/ HealthCheck
  \/ \E i \in 1..MaxProviders, outcome \in ProbeOutcomes : ProbeSettle(i, outcome)
  \/ GetStats

SpecFrame == InitManage /\ [][NextFrame]_vars

\* single-attempt calls beside health sweeps on a dispatcher that is not
\* reconfigured
NextProbe ==
  \/ \E r \in Reqs : Request(r)
  \/ \E r \in Reqs : AdapterResolve(r)
  \/ \E r \in Reqs : AdapterReject(r)
  \/ \E r \in Reqs : TimeoutFire(r)
  \/ \E o \in orphans : LateSettle(o)
  \/ HealthCheck
  \/ \E i \in 1..MaxProviders, outcome \in ProbeOutcomes : ProbeSettle(i, outcome)

SpecProbe == InitManage /\ [][NextProbe]_vars

\* ------------------------------------------- the strategies as functions
FnDescriptors ==
  Descriptors \cup { [name |-> "gemini", weight |-> 2, timeout |-> 0] }

FnNames == { d.name : d \in FnDescriptors }

\* statistics maps over some of the names, entries differing in isHealthy
FnStats ==
  UNION { [ S -> { [FreshStats EXCEPT !.isHealthy = b] : b \in BOOLEAN } ] :
            S \in SUBSET FnNames }

\* request() calls on a failover dispatcher nobody reconfigures or sweeps
NextFailover ==
  \/ \E r \in Reqs : Request(r)
  \/ \E r \in Reqs : AdapterResolve(r)
  \/ \E r \in Reqs : AdapterReject(r)
  \/ \E r \in Reqs : TimeoutFire(r)
  \/ \E r \in Reqs : DelayFire(r)
  \/ \E o \in orphans : LateSettle(o)

SpecFailover == InitFailover /\ [][NextFailover]_vars

\* ---------------------------------------------- calls under fair timers
\* request(request) by a caller that issues one call
Call(r) ==
  /\ req[r].pc = "idle"
  /\ Request(r)

\* the promise of Promise.race settles: by its timer at the latest
RaceSettles(r) == AdapterResolve(r) \/ AdapterReject(r) \/ TimeoutFire(r)

NextLive ==
  \/ \E r \in Reqs : Call(r)
  \/ \E r \in Reqs : AdapterResolve(r)
  \/ \E r \in Reqs : AdapterReject(r)
  \/ \E r \in Reqs : TimeoutFire(r)
  \/ \E r \in Reqs : DelayFire(r)
  \/ \E o \in orphans : LateSettle(o)

\* setTimeout callbacks run: a pending race is settled and a pending backoff
\* delay ends
TimersFire ==
  \A r \in Reqs : WF_vars(RaceSettles(r)) /\ WF_vars(DelayFire(r))

SpecLive == InitLive /\ [][NextLive]_vars /\ TimersFire

\* a dispatcher that stays as constructed while a strategy is exercised
InitFn ==
  /\ config = [ strategy |-> "round-robin", providers |-> <<>>,
                maxRetries |-> 0, retryDelay |-> 0, globalTimeout |-> 0,
                customFn |-> 0 ]
  /\ providers = {}
  /\ stats = InitialStats(<<>>)
  /\ strategy = CreateStrategy("round-robin", <<>>)
  /\ flagBy = InitialStats(<<>>)
  /\ req = [ r \in Reqs |-> IdleRequest ]
  /\ orphans = {}
  /\ hc = IdleSweep
  /\ nAttempts = 0
  /\ budget = 0
  /\ nMutations = 0
  /\ nSweeps = 0
  /\ hist = FreshHist
  /\ removed = {}
  /\ snap = NoSnapshot
  /\ ctor = NoConstruction
  /\ \E kind \in StrategyKinds, list \in SeqsUpTo(FnDescriptors, MaxFnProviders),
        st \in FnStats, cf \in CustomFunctions :
       /\ kind # "failover" => st = InitialStats(<<>>)
       /\ kind # "custom" => cf = 0
       /\ \E draw2 \in Draws(CreateStrategy(kind, list), list) :
            fn = [ pc |-> "ready", kind |-> kind, providers |-> list,
                   stats |-> st, cf |-> cf, draw2 |-> draw2,
                   result |-> NoSelection ]

\* selectProvider(providers, stats) on a freshly created strategy
FnSelect ==
  /\ fn.pc = "ready"
  /\ fn' = [ fn EXCEPT
               !.pc = "done",
               !.result = SelectProvider(CreateStrategy(fn.kind, fn.providers),
                                         fn.providers, fn.stats, fn.cf,
                                         fn.draw2) ]
  /\ UNCHANGED << ctor, config, providers, strategy, stats, req, orphans, hc,
                  nAttempts, budget, nMutations, nSweeps, flagBy, hist,
                  removed, snap >>

NextFn == FnSelect

SpecFn == InitFn /\ [][NextFn]_vars

\* ----------------------------------------------- the constructor, alone
\* the provider names createProvider has an adapter class for
SupportedProviders ==
  { "openai", "claude", "gemini", "cohere", "mistral", "perplexity",
    "ollama", "together", "groq" }

\* createProvider(config) throws 'Unsupported provider'
CreateProviderThrows(d) == d.name \notin SupportedProviders

\* customStrategy left undefined in the configuration
NoFunction == -1

\* a createStrategy that builds a custom strategy without a function
CreateStrategyLenient(kind, customStrategy) == kind \notin StrategyKinds

\* createStrategy(strategyType, providers, customStrategy) throws: the type
\* is no key of strategyMap, or it is 'custom' and customStrategy is missing
CreateStrategyThrows(kind, customStrategy) ==
  \/ kind \notin StrategyKinds
  \/ kind = "custom" /\ customStrategy = NoFunction

\* the configurations handed to the constructor
NewKinds == StrategyKinds \cup {"random"}
NewFunctions == CustomFunctions \cup {NoFunction}
NewDescriptors ==
  Descriptors \cup { [name |-> "llama", weight |-> 0, timeout |-> 0] }

InitNew ==
  /\ config = [ strategy |-> "round-robin", providers |-> <<>>,
                maxRetries |-> 0, retryDelay |-> 0, globalTimeout |-> 0,
                customFn |-> 0 ]
  /\ providers = {}
  /\ stats = InitialStats(<<>>)
  /\ strategy = CreateStrategy("round-robin", <<>>)
  /\ flagBy = InitialStats(<<>>)
  /\ req = [ r \in Reqs |-> IdleRequest ]
  /\ orphans = {}
  /\ hc = IdleSweep
  /\ nAttempts = 0
  /\ budget = 0
  /\ nMutations = 0
  /\ nSweeps = 0
  /\ hist = FreshHist
  /\ removed = {}
  /\ snap = NoSnapshot
  /\ fn = IdleFn
  /\ \E kind \in NewKinds, cf \in NewFunctions,
        list \in SeqsUpTo(NewDescriptors, MaxNewProviders) :
       ctor = [ pc |-> "ready", strategy |-> kind, customStrategy |-> cf,
                providers |-> list, instance |-> NoInstance ]

\* new LLMLoadBalancer(config): initializeProviders, then createStrategy;
\* an error thrown by either leaves the caller without an instance
Construct ==
  /\ ctor.pc = "ready"
  /\ IF \/ \E i \in 1..Len(ctor.providers) :
             CreateProviderThrows(ctor.providers[i])
        \/ CreateStrategyThrows(ctor.strategy, ctor.customStrategy)
     THEN ctor' = [ctor EXCEPT !.pc = "threw"]
     ELSE ctor' = [ctor EXCEPT
                     !.pc = "built",
                     !.instance =
                       [ made |-> TRUE,
                         adapters |-> NamesOf(ctor.providers),
                         stats |-> InitialStats(ctor.providers),
                         strategy |-> CreateStrategy(ctor.strategy,
                                                     ctor.providers) ]]
  /\ UNCHANGED << config, providers, strategy, stats, req, orphans, hc,
                  nAttempts, budget, nMutations, nSweeps, flagBy, hist,
                  removed, snap, fn >>

NextNew == Construct

SpecNew == InitNew /\ [][NextNew]_vars

\* ------------------------------------------------------------------ claims
Last(s) == s[Len(s)]

\* the positions of a call's log that hold an event of one of the kinds
Events(log, kinds) == { i \in 1..Len(log) : log[i][1] \in kinds }

RECURSIVE SumTotals(_, _)
SumTotals(st, names) ==
  IF names = {} THEN 0
  ELSE LET n == CHOOSE x \in names : TRUE
       IN st[n].totalRequests + SumTotals(st, names \ {n})

\* C1: in every reachable state every registered provider's totalRequests
\* equals successfulRequests + failedRequests.
C1_CountersAddUp ==
  \A n \in DOMAIN stats :
    stats[n].totalRequests
      = stats[n].successfulRequests + stats[n].failedRequests

\* a provider with a success and a failure, after a sweep and a reconfiguration
C1_Witness ==
  /\ hc.pc = "done"
  /\ nMutations > 0
  /\ \E n \in DOMAIN stats :
       stats[n].successfulRequests > 0 /\ stats[n].failedRequests > 0

\* the flag a provider's counters call for
DerivedHealth(s) ==
  IF s.totalRequests > 0 THEN 2 * s.successfulRequests > s.totalRequests
  ELSE TRUE

\* C2 as stated: in every reachable state, sweeps included, isHealthy is
\* (successfulRequests / totalRequests > 0.5) when totalRequests > 0 and
\* true when totalRequests = 0.
C2_HealthAlwaysDerived ==
  \A n \in DOMAIN stats : stats[n].isHealthy = DerivedHealth(stats[n])

\* C2 amended: the same for every provider whose flag was not last written
\* by a healthCheck probe, that is, no probe of it has settled since its
\* last recorded attempt or its registration.
C2_HealthDerivedUnlessProbed ==
  \A n \in DOMAIN stats :
    flagBy[n] # "probe" => stats[n].isHealthy = DerivedHealth(stats[n])

\* a sweep has finished and an attempt recorded afterwards or beside it left
\* a provider unhealthy by its ratio
C2_Witness ==
  /\ hc.pc = "done"
  /\ \E n \in DOMAIN stats :
       /\ flagBy[n] = "update"
       /\ stats[n].failedRequests > 0
       /\ ~stats[n].isHealthy

\* C3: round-robin, no add/remove: sequential calls that each succeed on
\* their first attempt are served by providers[0], providers[1], ... in
\* configured order, wrapping to providers[0] after the last.
C3_RoundRobinOrder ==
  (config.strategy = "round-robin" /\ hist.clean) =>
    \A i \in 1..Len(hist.served) :
      hist.served[i]
        = config.providers[((i - 1) % Len(config.providers)) + 1].name

\* N = 2 providers and N + 1 sequential first-attempt successes
C3_Witness ==
  /\ config.strategy = "round-robin"
  /\ hist.clean
  /\ Len(config.providers) = 2
  /\ Len(hist.served) = 3

\* the positions whose provider failover may take: no entry, or healthy
Eligible(list, st) ==
  { i \in 1..Len(list) :
      list[i].name \notin DOMAIN st \/ st[list[i].name].isHealthy }

\* C4: for a non-empty list and any stats map, failover returns the first
\* provider in list order whose entry is absent or healthy, and providers[0]
\* when none qualifies.
C4_FailoverFirstEligible ==
  (fn.pc = "done" /\ fn.kind = "failover" /\ Len(fn.providers) > 0) =>
    LET ok == Eligible(fn.providers, fn.stats)
    IN /\ ~fn.result.threw
       /\ fn.result.idx = IF ok = {} THEN 1
                          ELSE CHOOSE i \in ok : \A j \in ok : i <= j

\* failover skipped an unhealthy first provider for one without an entry
C4_Witness ==
  /\ fn.pc = "done"
  /\ fn.kind = "failover"
  /\ Len(fn.providers) = 3
  /\ fn.result.idx = 2
  /\ fn.providers[2].name \notin DOMAIN fn.stats
  /\ fn.providers[3].name \in DOMAIN fn.stats

\* C5: a call all of whose attempts failed ends in the aggregate failure
\* with exactly maxRetries errors, the i-th being the i-th attempt's error;
\* until then it has fewer errors and has not failed.
C5_AggregateErrors ==
  \A r \in Reqs :
    LET rq == req[r]
    IN /\ rq.pc = "failed" <=> Len(rq.errors) = MaxRetries
       /\ Len(rq.errors) <= MaxRetries
       /\ \A i \in 1..Len(rq.errors) :
            /\ rq.errors[i].attempt = i - 1
            /\ Ev("err", rq.errors[i].provider, i - 1) \in Range(rq.log)
            /\ rq.errors[i].provider # "unknown" =>
                 Ev("select", rq.errors[i].provider, i - 1) \in Range(rq.log)
       /\ Cardinality(Events(rq.log, {"err"})) = Len(rq.errors)
       /\ rq.pc = "failed" => Last(rq.log) = Ev("throw", "-", MaxRetries)

\* a call with maxRetries = 2 has failed twice, on a named provider
C5_Witness ==
  \E r \in Reqs :
    /\ req[r].pc = "failed"
    /\ MaxRetries = 2
    /\ req[r].errors[2].provider # "unknown"

\* the kinds of the events of a log, in order
Kinds(log) == [ i \in 1..Len(log) |-> log[i][1] ]

\* C6: maxRetries = 2, first attempt fails, second succeeds: the call
\* returns the second attempt's response after exactly two adapter calls and
\* exactly one backoff delay, which lies between the failure and the retry.
C6_RetryOnce ==
  \A r \in Reqs :
    (MaxRetries = 2 /\ req[r].pc = "success" /\ req[r].attempt = 1) =>
      LET log == req[r].log
      IN /\ Kinds(log) = << "select", "call", "err", "statFail", "delay",
                            "select", "call", "statOk", "return" >>
         /\ log[2][3] = 0 /\ log[3][3] = 0 /\ log[4][3] = 0
         /\ log[7][3] = 1
         /\ Last(log) = Ev("return", log[7][2], 1)
         /\ req[r].response = log[7][2]

C6_Witness ==
  \E r \in Reqs :
    /\ MaxRetries = 2 /\ req[r].pc = "success" /\ req[r].attempt = 1
    /\ Len(req[r].errors) = 1

\* C7: one provider, maxRetries = 2, the first adapter call fails with a
\* provider-attributed error, the second succeeds: the provider's stats
\* are totalRequests 2, successfulRequests 1, failedRequests 1.
C7_RetryStats ==
  \A r \in Reqs :
    ( /\ Len(config.providers) = 1 /\ MaxRetries = 2
      /\ nAttempts = 2
      /\ req[r].pc = "success" /\ req[r].attempt = 1
      /\ req[r].errors[1].provider # "unknown" ) =>
      LET s == stats[config.providers[1].name]
      IN /\ s.totalRequests = 2
         /\ s.successfulRequests = 1
         /\ s.failedRequests = 1

C7_Witness ==
  \E r \in Reqs :
    /\ Len(config.providers) = 1 /\ MaxRetries = 2 /\ nAttempts = 2
    /\ req[r].pc = "success" /\ req[r].attempt = 1
    /\ req[r].errors[1].kind = "api"
    /\ req[r].response = config.providers[1].name

\* every success update of a call is the last thing but the return, follows
\* the selection and the adapter call of the same attempt, and a call that
\* has succeeded has recorded one
SuccessEndsLog ==
  \A r \in Reqs :
    LET log == req[r].log
    IN /\ \A i \in Events(log, {"statOk"}) :
            /\ i >= 3 /\ i = Len(log) - 1
            /\ log[i - 2] = Ev("select", log[i][2], log[i][3])
            /\ log[i - 1] = Ev("call", log[i][2], log[i][3])
            /\ log[i + 1] = Ev("return", log[i][2], log[i][3])
            /\ req[r].pc = "success"
            /\ req[r].response = log[i][2]
            /\ req[r].attempt = log[i][3]
       /\ req[r].pc = "success" => Events(log, {"statOk"}) # {}

\* the step that resolves an attempt adds one success to the selected
\* provider's entry and touches no other; a call that has succeeded takes no
\* further step (its slot only changes when the caller issues a new call)
SuccessStep ==
  \A r \in Reqs :
    /\ (req[r].pc = "waiting" /\ req'[r].pc = "success") =>
         /\ DOMAIN stats' = DOMAIN stats
         /\ \A n \in DOMAIN stats :
              IF n = req[r].selected
              THEN /\ stats'[n].totalRequests = stats[n].totalRequests + 1
                   /\ stats'[n].successfulRequests
                        = stats[n].successfulRequests + 1
                   /\ stats'[n].failedRequests = stats[n].failedRequests
              ELSE stats'[n] = stats[n]
    /\ (req[r].pc = "success" /\ req'[r] # req[r]) =>
         /\ nAttempts' = nAttempts + 1
         /\ req'[r].attempt = 0
         /\ Events(req'[r].log, {"statOk", "return"}) = {}

\* C8: the first successful attempt ends the call: the response is returned,
\* exactly one success update is recorded for the provider selected in that
\* attempt, and the call selects, calls, delays and updates no further.
C8_SuccessShortCircuits == []SuccessEndsLog /\ [][SuccessStep]_vars

\* a call succeeded on its first attempt with retries and budget to spare
C8_Witness ==
  \E r \in Reqs :
    /\ req[r].pc = "success" /\ req[r].attempt = 0
    /\ MaxRetries > 1 /\ nAttempts < budget

\* C9: after the failed attempt k < maxRetries - 1 the call suspends for
\* retryDelay * 2^k ms before attempt k + 1; after the last allowed
\* attempt's failure it raises the aggregate failure without a delay.
C9_Backoff ==
  \A r \in Reqs :
    LET log == req[r].log
        D == Events(log, {"delay"})
    IN /\ \A i \in D :
            LET k == Cardinality({ j \in D : j < i })
            IN /\ k < MaxRetries - 1
               /\ log[i][3] = RetryDelay * Pow2(k)
               /\ i > 1
               /\ log[i - 1][1] \in {"err", "statFail"}
               /\ log[i - 1][3] = k
               /\ i < Len(log) =>
                    /\ log[i + 1][1] \in {"select", "err"}
                    /\ log[i + 1][3] = k + 1
       /\ Cardinality(D) = IF req[r].pc = "failed" THEN MaxRetries - 1
                           ELSE Len(req[r].errors)
       /\ req[r].pc = "failed" =>
            /\ Last(log)[1] = "throw"
            /\ log[Len(log) - 1][1] \in {"err", "statFail"}
            /\ log[Len(log) - 1][3] = MaxRetries - 1
       /\ req[r].pc = "delaying" <=> (log # <<>> /\ Last(log)[1] = "delay")

\* three attempts failed: delays of retryDelay and 2 * retryDelay, then the
\* aggregate failure
C9_Witness ==
  \E r \in Reqs :
    /\ req[r].pc = "failed" /\ MaxRetries = 3
    /\ Ev("delay", "-", RetryDelay) \in Range(req[r].log)
    /\ Ev("delay", "-", 2 * RetryDelay) \in Range(req[r].log)
    /\ \E i \in 1..3 : req[r].errors[i].provider # "unknown"

\* no more statistics updates than attempts, and at most one per attempt
OneUpdatePerAttempt ==
  /\ SumTotals(stats, DOMAIN stats) <= nAttempts
  /\ \A r \in Reqs : \A k \in 0..(MaxRetries - 1) :
       Cardinality({ i \in Events(req[r].log, {"statOk", "statFail"}) :
                       req[r].log[i][3] = k }) <= 1

\* a step in which a timed-out adapter call settles changes neither the
\* statistics nor any call
LateSettlementIgnored ==
  (orphans' # orphans /\ orphans' \subseteq orphans) =>
    (stats' = stats /\ req' = req)

\* C10: whichever of adapter call and timer settles first decides the
\* attempt; the adapter call's completion after the timer fired updates no
\* statistics and returns nothing, so an attempt yields at most one update.
C10_RaceDecidesOnce == []OneUpdatePerAttempt /\ [][LateSettlementIgnored]_vars

\* an attempt timed out and its adapter call has settled since
C10_Witness ==
  /\ orphans = {}
  /\ \E r \in Reqs : \E i \in 1..Len(req[r].errors) :
       req[r].errors[i].kind = "timeout"

\* the descriptors of a list that carry a name
Named(list, name) == { i \in 1..Len(list) : list[i].name = name }

\* an attempt awaiting its race was given the selected descriptor's timeout
\* if set, else the global timeout if set, else 30000 ms
TimeoutDerived ==
  \A r \in Reqs :
    req[r].pc = "waiting" =>
      /\ Named(config.providers, req[r].selected) # {}
      /\ \A i \in Named(config.providers, req[r].selected) :
           LET d == config.providers[i]
           IN req[r].timeout =
                IF d.timeout # 0 THEN d.timeout
                ELSE IF config.globalTimeout # 0 THEN config.globalTimeout
                ELSE 30000

\* the entry of provider p after one more failed attempt
OneMoreFailure(s) ==
  [ s EXCEPT !.totalRequests = @ + 1, !.failedRequests = @ + 1,
             !.lastRequestTime = 1,
             !.isHealthy = 2 * s.successfulRequests > s.totalRequests + 1 ]

\* the step in which call r's attempt ends with the error e
Fails(r) ==
  /\ Len(req'[r].errors) = Len(req[r].errors) + 1
  /\ SubSeq(req'[r].errors, 1, Len(req[r].errors)) = req[r].errors

\* the step in which the timer beats the adapter call: the attempt's error
\* names the selected provider, has no status code, and that provider's
\* entry takes one failed attempt while every other entry stays
TimerExpiry ==
  \A r \in Reqs :
    (req[r].pc = "waiting" /\ Fails(r) /\ Last(req'[r].errors).kind = "timeout")
      => LET e == Last(req'[r].errors)
             p == req[r].selected
         IN /\ e.provider = p
            /\ e.statusCode = 0
            /\ e.attempt = req[r].attempt
            /\ p \in DOMAIN stats
            /\ stats' = [stats EXCEPT ![p] = OneMoreFailure(stats[p])]

\* C11: the per-attempt timeout is the selected descriptor's timeout if set,
\* else the global timeout if set, else 30000 ms; when the timer expires
\* first the attempt fails with an error tagged with the selected provider's
\* name and no status code, and one failed update is recorded for it.
C11_TimeoutRace == []TimeoutDerived /\ [][TimerExpiry]_vars

\* an attempt on a descriptor without a timeout of its own timed out after
\* the global timeout
C11_Witness ==
  \E r \in Reqs :
    /\ req[r].errors # <<>>
    /\ Last(req[r].errors).kind = "timeout"
    /\ config.globalTimeout # 0
    /\ req[r].timeout = config.globalTimeout
    /\ stats[req[r].selected].failedRequests > 0

\* the providers the adapter was called on in attempt k of a log
Called(log, k) ==
  { log[i][2] : i \in { j \in Events(log, {"call"}) : log[j][3] = k } }

\* Every failed attempt of a call has one error.  If the attempt got as far
\* as an adapter call, the error names the provider called and one failed
\* update follows it; otherwise (the selection failed or the selected
\* descriptor has no adapter) it is tagged "unknown" and no update follows.
ErrorTags ==
  \A r \in Reqs :
    LET log == req[r].log
    IN \A i \in Events(log, {"err"}) :
         LET k == log[i][3]
             charges == { j \in Events(log, {"statFail"}) : log[j][3] = k }
         IN /\ req[r].errors[k + 1].provider = log[i][2]
            /\ IF Called(log, k) = {}
               THEN /\ log[i][2] = "unknown"
                    /\ req[r].errors[k + 1].kind = "internal"
                    /\ charges = {}
               ELSE /\ Called(log, k) = { log[i][2] }
                    /\ req[r].errors[k + 1].kind \in {"api", "timeout"}
                    /\ charges = { i + 1 }
                    /\ log[i + 1] = Ev("statFail", log[i][2], k)

\* the step in which an attempt fails: an error tagged "unknown" leaves the
\* statistics as they are, an error tagged with a provider adds one failed
\* attempt to that provider's entry and changes no other
FailureCharges ==
  \A r \in Reqs :
    Fails(r) =>
      LET p == Last(req'[r].errors).provider
      IN IF p = "unknown" THEN stats' = stats
         ELSE /\ p \in DOMAIN stats
              /\ stats' = [stats EXCEPT ![p] = OneMoreFailure(stats[p])]

\* C12: an attempt whose failure is not provider-attributable (selection
\* fails, or the selected descriptor has no adapter) is appended to the error
\* list tagged "unknown" and leaves every provider's statistics unchanged; an
\* attempt that fails with a provider-tagged error records exactly one failed
\* update for that provider.
C12_UnknownNotCharged == []ErrorTags /\ [][FailureCharges]_vars

\* the custom function selected a descriptor that has no adapter, beside a
\* registered provider whose counters are still zero
C12_Witness ==
  \E r \in Reqs :
    /\ req[r].pc = "failed"
    /\ req[r].selected \notin providers
    /\ Ev("select", req[r].selected, 0) \in Range(req[r].log)
    /\ req[r].errors[1].provider = "unknown"
    /\ DOMAIN stats # {}
    /\ SumTotals(stats, DOMAIN stats) = 0

\* the step of an addProvider call: the list grows by one descriptor
Adds == Len(config'.providers) = Len(config.providers) + 1

\* C13: immediately after addProvider(d) the statistics hold an entry for
\* d.name with totalRequests, successfulRequests, failedRequests and
\* averageResponseTime 0 and isHealthy true, d is the last element of the
\* configured list, and d is among getHealthyProviders().
C13_AddedProviderFresh ==
  [][ Adds =>
        LET d == Last(config'.providers)
            s == stats'[d.name]
        IN /\ d \in Descriptors
           /\ config'.providers = Append(config.providers, d)
           /\ d.name \in DOMAIN stats'
           /\ s.totalRequests = 0
           /\ s.successfulRequests = 0
           /\ s.failedRequests = 0
           /\ s.averageResponseTime = [num |-> 0, den |-> 1]
           /\ s.isHealthy
           /\ d \in Range(GetHealthyProviders')
           /\ d.name \in providers' ]_vars

\* a name that served a successful attempt was added again: its entry is
\* back to zero and the list holds it twice
C13_Witness ==
  \E r \in Reqs :
    /\ req[r].pc = "success"
    /\ Cardinality(Named(config.providers, req[r].response)) = 2
    /\ stats[req[r].response].totalRequests = 0
    /\ Last(GetHealthyProviders).name = req[r].response

\* a removed name has no statistics entry, no adapter, and no descriptor in
\* the configured list or among getHealthyProviders()
RemovedGone ==
  \A n \in removed :
    /\ n \notin DOMAIN stats
    /\ n \notin providers
    /\ Named(config.providers, n) = {}
    /\ Named(GetHealthyProviders, n) = {}

\* the step in which call r begins an attempt
StartsAttempt(r) == nAttempts' = nAttempts + 1 /\ req'[r] # req[r]

\* no attempt that begins while a name is removed selects that name
RemovedNotSelected ==
  \A r \in Reqs : StartsAttempt(r) => req'[r].selected \notin removed

\* no attempt that begins while a name is removed calls that name's adapter;
\* it selects the name only if the custom strategy function returned a
\* descriptor that is not in the list, and then it fails at once with an
\* error tagged "unknown" and the statistics stay as they are
RemovedNotCalled ==
  \A r \in Reqs :
    (StartsAttempt(r) /\ req'[r].selected \in removed) =>
      /\ config.strategy = "custom" /\ config.customFn = 2
      /\ req'[r].selected = StrayDescriptor.name
      /\ req'[r].pc # "waiting"
      /\ Called(req'[r].log, req'[r].attempt) = {}
      /\ Last(req'[r].errors).provider = "unknown"
      /\ stats' = stats

\* C14 as stated: after removeProvider(name) the statistics have no entry
\* for name, getHealthyProviders() has no descriptor with that name, the
\* adapter is gone, and no attempt that starts after the removal and before
\* a re-add selects a provider with that name.
C14_RemovedNeverSelected == []RemovedGone /\ [][RemovedNotSelected]_vars

\* C14 amended: the same, except that an attempt may select the removed
\* name when a custom strategy function returns a descriptor that is not in
\* the list it was given; no such attempt reaches the adapter.
C14_RemovedNeverCalled == []RemovedGone /\ [][RemovedNotCalled]_vars

\* openai was removed from <<openai, claude>> and an attempt that began
\* afterwards is waiting on claude under failover
C14_Witness ==
  /\ removed = {"openai"}
  /\ config.strategy = "failover"
  /\ Len(config.providers) = 1
  /\ config.providers[1].name = "claude"
  /\ \E r \in Reqs : req[r].pc = "waiting" /\ req[r].selected = "claude"

\* C15: after construction and after any sequence of addProvider and
\* removeProvider calls, interleaved with requests and health sweeps, the
\* names that have a statistics entry are the names in the configured list
\* and are the names that have an adapter.
C15_RegistriesAgree ==
  /\ DOMAIN stats = NamesOf(config.providers)
  /\ DOMAIN stats = providers

\* a reconfigured dispatcher with an attempt recorded and a sweep finished
C15_Witness ==
  /\ nMutations > 0
  /\ hc.pc = "done"
  /\ providers # {}
  /\ SumTotals(stats, DOMAIN stats) > 0

\* a step of the dispatcher, not of the caller that holds the snapshot
DispatcherStep == snap'.calls = snap.calls /\ snap'.writes = snap.writes

\* no step of the dispatcher changes what the caller reads in its snapshot
SnapshotFrozen ==
  (snap.taken /\ DispatcherStep) => SnapshotView' = SnapshotView

\* a write of the caller into its snapshot leaves the statistics alone
SnapshotPrivate == snap'.writes # snap.writes => stats' = stats

\* C16: the map getStats() returns is a defensive copy: statistics updates
\* after the call (later attempts, health sweeps) are not observable through
\* the snapshot, and changing a counter or flag in the snapshot does not
\* change the dispatcher's own statistics.
C16_SnapshotIsolated == [][SnapshotFrozen /\ SnapshotPrivate]_vars

\* the probes of the current sweep that have settled
Settled == { i \in 1..Len(hc.probes) : ~hc.probes[i].pending }

\* the step of a healthCheck() call starts one probe per configured
\* descriptor, in list order, each with the 5000 ms timeout
SweepStarts ==
  nSweeps' = nSweeps + 1 =>
    /\ Len(hc'.probes) = Len(config.providers)
    /\ \A i \in 1..Len(config.providers) :
         /\ hc'.probes[i].name = config.providers[i].name
         /\ hc'.probes[i].pending
         /\ hc'.probes[i].timeout = 5000
    /\ hc'.status = << >>

\* while a sweep runs, its probes are the ones it started and each step
\* settles at most one of them, once
SweepAdvances ==
  (nSweeps' = nSweeps /\ hc' # hc) =>
    /\ hc.pc = "running"
    /\ Len(hc'.probes) = Len(hc.probes)
    /\ \E i \in 1..Len(hc.probes) :
         /\ hc.probes[i].pending /\ ~hc'.probes[i].pending
         /\ hc'.probes[i].name = hc.probes[i].name
         /\ \A j \in 1..Len(hc.probes) : j # i => hc'.probes[j] = hc.probes[j]

\* a sweep never fails; it has returned exactly when it was started and no
\* probe is pending, and its result map has an entry for every probe that
\* has settled
SweepCompletes ==
  /\ hc.pc \in {"idle", "running", "done"}
  /\ hc.pc = "idle" <=> nSweeps = 0
  /\ hc.pc = "done" => Settled = 1..Len(hc.probes)
  /\ hc.pc = "running" => Settled # 1..Len(hc.probes)
  /\ DOMAIN hc.status = { hc.probes[i].name : i \in Settled }

\* C17: healthCheck() issues exactly one probe to every provider configured
\* when it is called, whatever the strategy and the current health, returns
\* only after every probe has settled, never fails because a probe failed or
\* timed out, and its result map has an entry for every one of them.
C17_SweepProbesAll ==
  []SweepCompletes /\ [][SweepStarts /\ SweepAdvances]_vars

\* a sweep over two providers has returned although one callback rejected;
\* one provider is reported healthy and one is not
C17_Witness ==
  /\ hc.pc = "done"
  /\ Len(hc.probes) = 2
  /\ \E i \in 1..2 : hc.probes[i].rejected
  /\ \E n \in DOMAIN hc.status : hc.status[n]
  /\ \E n \in DOMAIN hc.status : ~hc.status[n]

\* the step in which probe i of the running sweep settles
Settles(i) ==
  /\ i \in 1..Len(hc.probes) /\ Len(hc'.probes) = Len(hc.probes)
  /\ hc.probes[i].pending /\ ~hc'.probes[i].pending

\* a settling probe reports true iff its adapter call resolved before the
\* timer, writes that boolean into the provider's isHealthy flag, and
\* changes nothing else in the statistics
ProbeWritesFlag ==
  \A i \in 1..MaxProviders :
    Settles(i) =>
      LET n == hc.probes[i].name
          ok == hc'.probes[i].outcome = "ok"
      IN /\ hc'.probes[i].outcome \in {"ok", "fail"}
         /\ hc'.status[n] = ok
         /\ stats'[n].isHealthy = ok
         /\ stats' = [stats EXCEPT ![n].isHealthy = ok]

\* the call of healthCheck() itself changes no statistics
SweepStartKeepsStats == nSweeps' = nSweeps + 1 => stats' = stats

\* the map a sweep returns holds, for every configured provider, whether
\* its probe succeeded
SweepReports ==
  hc.pc = "done" =>
    /\ DOMAIN hc.status = NamesOf(config.providers)
    /\ \A i \in 1..Len(hc.probes) :
         hc.status[hc.probes[i].name] = (hc.probes[i].outcome = "ok")

\* C18: when healthCheck() runs with no add/remove interleaved, for every
\* configured provider the returned boolean is true iff its probe succeeded
\* before the probe timeout, that boolean is written directly into the
\* provider's isHealthy flag whatever its success ratio, and the sweep leaves
\* totalRequests, successfulRequests, failedRequests and averageResponseTime
\* of every provider unchanged.
C18_ProbeSetsFlag ==
  []SweepReports /\ [][ProbeWritesFlag /\ SweepStartKeepsStats]_vars

\* a provider whose only attempt succeeded is unhealthy after a sweep whose
\* probe of it failed, its counters as they were
C18_Witness ==
  /\ hc.pc = "done"
  /\ \E n \in DOMAIN stats :
       /\ stats[n].successfulRequests = 1
       /\ stats[n].totalRequests = 1
       /\ ~stats[n].isHealthy
       /\ ~hc.status[n]

\* the k-th smallest element of a set of positions
Kth(S, k) == CHOOSE i \in S : Cardinality({ j \in S : j < i }) = k - 1

\* C19: getHealthyProviders() returns, in configured order, exactly the
\* configured descriptors whose statistics entry is absent or has isHealthy
\* other than false; a freshly constructed dispatcher returns all of them.
C19_HealthyProviders ==
  LET ok == Eligible(config.providers, stats)
      got == GetHealthyProviders
  IN /\ Len(got) = Cardinality(ok)
     /\ \A k \in 1..Len(got) : got[k] = config.providers[Kth(ok, k)]
     /\ (nAttempts = 0 /\ nSweeps = 0 /\ nMutations = 0) =>
          got = config.providers

\* of two configured providers the first is unhealthy: the second alone is
\* returned
C19_Witness ==
  /\ Len(config.providers) = 2
  /\ ~stats[config.providers[1].name].isHealthy
  /\ config.providers[1].name # config.providers[2].name
  /\ GetHealthyProviders = << config.providers[2] >>

C21_EmptySetFailsFast ==
  Len(config.providers) = 0 =>
    \A r \in Reqs :
      /\ req[r].attempt = 0
      /\ Events(req[r].log, {"delay"}) = {}
      /\ req[r].pc \in {"idle", "failed"}

\* C22: for every strategy variant (round-robin, failover, weighted and
\* custom), selectProvider called with an empty provider list fails with the
\* empty-provider-set error instead of returning a value.
C22_EmptyListThrows ==
  (fn.pc = "done" /\ Len(fn.providers) = 0) => fn.result.threw

\* the name of the descriptor the caller's function returns for the current
\* list; "-" when it returns undefined
CustomChoice ==
  CASE config.customFn = 2 -> "claude"
    [] config.customFn + 1 <= Len(config.providers) ->
         config.providers[config.customFn + 1].name
    [] OTHER -> "-"

\* the attempt call r has just begun is waiting on the adapter of the
\* function's choice
SentToChoice(r) ==
  /\ req'[r].pc = "waiting"
  /\ req'[r].selected = CustomChoice
  /\ Last(req'[r].log) = Ev("call", CustomChoice, req'[r].attempt)

\* under the custom strategy every attempt is sent to the function's choice
EveryAttemptSent ==
  \A r \in Reqs :
    (StartsAttempt(r) /\ config.strategy = "custom") => SentToChoice(r)

\* under the custom strategy an attempt is sent to the function's choice if
\* that is a descriptor with an adapter; otherwise it is sent nowhere and
\* fails with an error tagged "unknown"
EveryAttemptSentOrFails ==
  \A r \in Reqs :
    (StartsAttempt(r) /\ config.strategy = "custom") =>
      IF CustomChoice \in providers THEN SentToChoice(r)
      ELSE /\ req'[r].pc # "waiting"
           /\ Called(req'[r].log, req'[r].attempt) = {}
           /\ Last(req'[r].errors).provider = "unknown"

\* under the custom strategy every adapter call and every response of a call
\* is the function's choice (the list does not change)
CustomServes ==
  config.strategy = "custom" =>
    \A r \in Reqs :
      /\ \A i \in Events(req[r].log, {"call"}) :
           req[r].log[i][2] = CustomChoice
      /\ req[r].pc = "success" => req[r].response = CustomChoice

\* C23 as stated: with strategy kind "custom", every attempt of every request
\* is sent to exactly the provider that the caller-supplied function returns
\* for the current provider list.
C23_CustomAlwaysSent == []CustomServes /\ [][EveryAttemptSent]_vars

\* C23 amended: every attempt for which the function returns a descriptor
\* that has an adapter is sent to exactly that provider, so every response
\* comes from it; an attempt for which it returns undefined or a descriptor
\* without an adapter makes no adapter call and fails.
C23_CustomSentIfRegistered ==
  []CustomServes /\ [][EveryAttemptSentOrFails]_vars

\* the function providers => providers[1]: the second provider failed the
\* first attempt and served the second
C23_Witness ==
  /\ config.strategy = "custom" /\ config.customFn = 1
  /\ Len(config.providers) = 2
  /\ \E r \in Reqs :
       /\ req[r].pc = "success" /\ req[r].attempt = 1
       /\ req[r].response = config.providers[2].name
       /\ Called(req[r].log, 0) = { config.providers[2].name }

\* the weight a descriptor counts with
EffectiveWeight(d) == IF d.weight = 0 THEN 1 ELSE d.weight

RECURSIVE SumWeights(_)
SumWeights(list) ==
  IF list = <<>> THEN 0
  ELSE EffectiveWeight(Head(list)) + SumWeights(Tail(list))

\* [0, totalWeight) cut into unit intervals [k, k+1); with whole weights the
\* selection is the same for every draw inside one of them, and UnitCells
\* counts those whose draws select providers[i] (2k+1 is twice the midpoint)
UnitCells(list, i) ==
  Cardinality({ k \in 0..(SumWeights(list) - 1) :
    WeightedSelect(CreateStrategy("weighted", list), list, 2 * k + 1).idx = i })

\* C24: under the weighted strategy the share of the draws in
\* [0, totalWeight) that select provider i is weight_i / totalWeight, so
\* providers with weights 3, 2, 1 are selected in proportion 3:2:1.
C24_WeightedShare ==
  (fn.pc = "done" /\ fn.kind = "weighted" /\ Len(fn.providers) > 0) =>
    /\ fn.result.strat.totalWeight = SumWeights(fn.providers)
    /\ fn.result.idx \in 1..Len(fn.providers)
    /\ \A i \in 1..Len(fn.providers) :
         UnitCells(fn.providers, i) = EffectiveWeight(fn.providers[i])

\* weights 3, 2, 1 (the last one unset): a draw of 3.5 selected the second
C24_Witness ==
  /\ fn.pc = "done" /\ fn.kind = "weighted"
  /\ fn.providers = << [name |-> "openai", weight |-> 3, timeout |-> 0],
                       [name |-> "gemini", weight |-> 2, timeout |-> 0],
                       [name |-> "claude", weight |-> 0, timeout |-> 7000] >>
  /\ fn.draw2 = 7 /\ fn.result.idx = 2
  /\ UnitCells(fn.providers, 1) = 3
  /\ UnitCells(fn.providers, 2) = 2
  /\ UnitCells(fn.providers, 3) = 1

\* call r has returned a response or thrown the aggregate error
Terminal(r) == req[r].pc \in {"success", "failed"}

\* the adapter calls call r has made
AdapterCalls(r) == Events(req[r].log, {"call"})

\* a call is in one of its five positions, has begun at most maxRetries
\* attempts and has made at most maxRetries adapter calls; a call that has
\* returned made its last attempt's adapter call, a call that has thrown
\* ran all maxRetries attempts
CallBounded ==
  \A r \in Reqs :
    /\ req[r].pc \in {"idle", "waiting", "delaying", "success", "failed"}
    /\ req[r].attempt < MaxRetries
    /\ Cardinality(AdapterCalls(r)) <= MaxRetries
    /\ req[r].pc = "failed" =>
         /\ req[r].attempt = MaxRetries - 1
         /\ Len(req[r].errors) = MaxRetries
    /\ req[r].pc = "success" => Len(req[r].errors) = req[r].attempt

\* a call that has ended stays as it ended
TerminalStays ==
  \A r \in Reqs : Terminal(r) => req'[r] = req[r]

\* C25: every request() call reaches exactly one of the two terminal states
\* (a returned response or the thrown aggregate failure) after at most
\* maxRetries attempts, provided that every timer fires; it makes at most
\* maxRetries adapter calls and ends in no other state.
C25_CallTerminates ==
  /\ []CallBounded
  /\ [][TerminalStays]_vars
  /\ \A r \in Reqs : (req[r].pc # "idle") ~> Terminal(r)

\* one call threw after DefaultMaxRetries adapter calls, the other returned
C25_Witness ==
  /\ config.maxRetries = 0
  /\ \E r, o \in Reqs :
       /\ req[r].pc = "failed"
       /\ Cardinality(AdapterCalls(r)) = DefaultMaxRetries
       /\ req[o].pc = "success"

\* C26: provider names are unique keys: after any sequence of addProvider
\* and removeProvider calls on a dispatcher constructed with distinct names,
\* the configured list holds no two descriptors with the same name.
C26_NamesUnique ==
  \A i, j \in 1..Len(config.providers) :
    config.providers[i].name = config.providers[j].name => i = j

\* updateStats for a name without an entry returns the statistics as they are
UpdateWithoutEntry ==
  \A n \in (Names \cup {"unknown"}) \ DOMAIN stats :
    \A success \in BOOLEAN, elapsed \in ElapsedValues \cup {0} :
      UpdateStats(stats, n, success, elapsed) = stats

\* the attempt call r was waiting on is over, its provider having no entry
CompletesUnregistered(r) ==
  /\ req[r].pc = "waiting"
  /\ req[r].selected \notin DOMAIN stats
  /\ req'[r].pc # "waiting"

\* the completion of an attempt whose provider has no entry changes no
\* statistics and brings no entry back; the attempt ends as it would have
\* with the entry in place: a response is returned, a failure is recorded
\* under the provider's name
CompletionWithoutEntry ==
  \A r \in Reqs :
    CompletesUnregistered(r) =>
      /\ stats' = stats
      /\ req[r].selected \notin DOMAIN stats'
      /\ \/ /\ req'[r].pc = "success"
            /\ req'[r].response = req[r].selected
            /\ req'[r].errors = req[r].errors
         \/ /\ req'[r].pc \in {"failed", "delaying"}
            /\ Len(req'[r].errors) = Len(req[r].errors) + 1
            /\ Last(req'[r].errors).provider = req[r].selected

\* C27: a statistics update for a provider name without a statistics entry
\* is a no-op that raises no error and creates no entry; when a provider is
\* removed while one of its attempts is in flight, the attempt's completion
\* changes no statistics and does not bring the entry back.
C27_UpdateWithoutEntry ==
  []UpdateWithoutEntry /\ [][CompletionWithoutEntry]_vars

\* a provider removed during its attempt served the response; the
\* statistics hold no entry for it
C27_Witness ==
  \E r \in Reqs :
    /\ req[r].pc = "success"
    /\ req[r].response \in removed
    /\ req[r].response \notin DOMAIN stats

\* the step in which a failed attempt is recorded for a provider that has an
\* entry: its totalRequests and failedRequests grow by one, its
\* successfulRequests and averageResponseTime stay, and so does every other
\* provider's entry
FailedAttemptFrame ==
  \A r \in Reqs :
    LET p == Last(req'[r].errors).provider
    IN (Fails(r) /\ p \in DOMAIN stats) =>
         /\ DOMAIN stats' = DOMAIN stats
         /\ stats'[p].totalRequests = stats[p].totalRequests + 1
         /\ stats'[p].failedRequests = stats[p].failedRequests + 1
         /\ stats'[p].successfulRequests = stats[p].successfulRequests
         /\ stats'[p].averageResponseTime = stats[p].averageResponseTime
         /\ \A n \in DOMAIN stats \ {p} : stats'[n] = stats[n]

\* C28: a failed attempt recorded for a registered provider adds one to its
\* totalRequests and to its failedRequests and leaves its
\* successfulRequests, its averageResponseTime and all statistics of every
\* other provider unchanged.
C28_FailedAttemptFrame == [][FailedAttemptFrame]_vars

\* a provider with a positive average took a failure while another provider
\* had an attempt on record
C28_Witness ==
  \E p, q \in DOMAIN stats :
    /\ p # q
    /\ stats[p].successfulRequests = 1 /\ stats[p].failedRequests = 1
    /\ stats[p].averageResponseTime.num > 0
    /\ stats[q].totalRequests = 1
    /\ \E r \in Reqs :
         /\ req[r].errors # <<>>
         /\ Last(req[r].errors).provider = p
         /\ req[r].pc \in {"delaying", "failed"}

\* the providers call r records an attempt for in this step: those of the
\* success and failure updates its log gains, if they have an entry
RecordedFor(r) ==
  { req'[r].log[i][2] :
      i \in { j \in (Len(req[r].log) + 1)..Len(req'[r].log) :
                req'[r].log[j][1] \in {"statOk", "statFail"} } }
    \cap DOMAIN stats

\* right after an attempt is recorded for a provider its flag is what its
\* counters give, whatever it was before
HealthAfterAttempt ==
  \A r \in Reqs :
    \A p \in RecordedFor(r) :
      /\ stats'[p].totalRequests = stats[p].totalRequests + 1
      /\ stats'[p].isHealthy
           = (2 * stats'[p].successfulRequests > stats'[p].totalRequests)
      /\ (stats'[p].totalRequests = 2 * stats'[p].successfulRequests)
           => ~stats'[p].isHealthy

\* C29: immediately after every recorded attempt (success or failure) for a
\* provider, its isHealthy flag is true iff 2 * successfulRequests >
\* totalRequests; with exactly half of the attempts successful the provider
\* is unhealthy, and a verdict a healthCheck wrote before is overwritten.
C29_HealthAfterAttempt == [][HealthAfterAttempt]_vars

\* one failure then one success on a provider that a finished sweep found
\* healthy: the flag is false, written by the update
C29_Witness ==
  /\ hc.pc = "done"
  /\ \E r \in Reqs :
       LET p == req[r].response
       IN /\ req[r].pc = "success" /\ req[r].attempt = 1
          /\ Last(req[r].errors).provider = p
          /\ p \in DOMAIN stats /\ p \in DOMAIN hc.status
          /\ hc.status[p]
          /\ flagBy[p] = "update"
          /\ stats[p].successfulRequests = 1 /\ stats[p].failedRequests = 1
          /\ ~stats[p].isHealthy

\* the cumulative weight of providers[1..i], an unset weight counting as 1
CumulativeWeight(list, i) == SumWeights(SubSeq(list, 1, i))

\* the indices whose cumulative weight is at least the draw draw2 / 2
Qualifying(list, draw2) ==
  { i \in 1..Len(list) : 2 * CumulativeWeight(list, i) >= draw2 }

\* C30: the weighted strategy, for a draw in [0, totalWeight), returns
\* providers[i] for the smallest index i whose cumulative weight (the sum of
\* the weights of providers[0..i], an unset weight counting as 1) is >= the
\* draw, and the last provider if no index qualifies.
C30_WeightedFirstQualifying ==
  (fn.pc = "done" /\ fn.kind = "weighted" /\ Len(fn.providers) > 0) =>
    LET q == Qualifying(fn.providers, fn.draw2)
    IN /\ ~fn.result.threw
       /\ fn.result.strat.cumulativeWeights
            = [ i \in 1..Len(fn.providers) |->
                  CumulativeWeight(fn.providers, i) ]
       /\ fn.result.idx
            = IF q = {} THEN Len(fn.providers)
              ELSE CHOOSE i \in q : \A j \in q : i <= j

\* weights 3, unset, 2 and a draw of exactly 4, the second cumulative weight:
\* the second provider is returned
C30_Witness ==
  /\ fn.pc = "done" /\ fn.kind = "weighted"
  /\ fn.providers = << [name |-> "openai", weight |-> 3, timeout |-> 0],
                       [name |-> "claude", weight |-> 0, timeout |-> 7000],
                       [name |-> "gemini", weight |-> 2, timeout |-> 0] >>
  /\ fn.draw2 = 8
  /\ Qualifying(fn.providers, fn.draw2) = {2, 3}
  /\ fn.result.idx = 2

\* the step is an addProvider or a removeProvider call
Reconfigures == nMutations' = nMutations + 1

\* after addProvider or removeProvider the strategy is as built for the new
\* list: the round-robin cursor is 0 and the weighted table holds the
\* cumulative weights of the new list, in its order
StrategyRebuilt ==
  Reconfigures =>
    /\ strategy'.kind = config.strategy
    /\ strategy'.currentIndex = 0
    /\ strategy'.cumulativeWeights =
         IF config.strategy = "weighted"
         THEN [ i \in 1..Len(config'.providers) |->
                  CumulativeWeight(config'.providers, i) ]
         ELSE <<>>
    /\ strategy'.totalWeight =
         IF config.strategy = "weighted" THEN SumWeights(config'.providers)
         ELSE 0

\* a round-robin attempt that starts with the cursor at 0 selects the first
\* provider of the list
CursorZeroSelectsFirst ==
  \A r \in Reqs :
    ( /\ StartsAttempt(r) /\ config.strategy = "round-robin"
      /\ strategy.currentIndex = 0 /\ Len(config.providers) > 0 ) =>
      req'[r].selected = config.providers[1].name

\* C31: addProvider and removeProvider each replace the strategy with one
\* freshly built for the new list: the next round-robin selection is
\* providers[0] of the new list, and the weighted table is the one computed
\* from the new list.
C31_StrategyRebuilt ==
  [][StrategyRebuilt /\ CursorZeroSelectsFirst]_vars

\* round-robin over two providers: the first was selected, the second was
\* removed, and the next selection was the first again
C31_Witness ==
  /\ config.strategy = "round-robin"
  /\ removed = {"claude"}
  /\ NamesOf(config.providers) = {"openai"}
  /\ nAttempts = 2
  /\ \A r \in Reqs :
       /\ req[r].pc = "success" /\ req[r].attempt = 0
       /\ req[r].response = "openai"

\* C32 as stated: the round-robin cursor is not reset by addProvider or
\* removeProvider; the rotation continues from the index the cursor had
\* before the change.
C32_CursorKept ==
  [][ (Reconfigures /\ config.strategy = "round-robin") =>
        strategy'.currentIndex = strategy.currentIndex ]_vars

\* the life of a round-robin cursor: a selection on a non-empty list returns
\* the element at the cursor and moves it on by one, wrapping at the end; an
\* addProvider or removeProvider call puts it back to 0; no other step
\* changes it
CursorLifetime ==
  config.strategy = "round-robin" =>
    IF Reconfigures THEN strategy'.currentIndex = 0
    ELSE IF \E r \in Reqs : StartsAttempt(r)
    THEN Len(config.providers) > 0 =>
           /\ strategy'.currentIndex =
                (strategy.currentIndex + 1) % Len(config.providers)
           /\ \A r \in Reqs :
                StartsAttempt(r) =>
                  req'[r].selected =
                    config.providers[strategy.currentIndex + 1].name
    ELSE strategy'.currentIndex = strategy.currentIndex

\* C32 amended: the cursor persists across calls while the strategy object
\* lives; addProvider and removeProvider replace the strategy object, so the
\* cursor is reset to 0 by either call and the rotation restarts at the first
\* element of the new list.
C32_CursorReset == [][CursorLifetime]_vars

\* the first provider was selected, which moved the cursor to 1, and was
\* then removed: the cursor is 0 on the list that is left
C32_Witness ==
  /\ config.strategy = "round-robin"
  /\ removed = {"openai"}
  /\ NamesOf(config.providers) = {"claude"}
  /\ nAttempts = 1
  /\ strategy.currentIndex = 0
  /\ \E r \in Reqs : req[r].selected = "openai"

\* the cursor of a round-robin dispatcher with providers is an index of
\* the configured list
CursorInRange ==
  (config.strategy = "round-robin" /\ Len(config.providers) > 0) =>
    /\ strategy.kind = "round-robin"
    /\ strategy.currentIndex \in 0..(Len(config.providers) - 1)

\* a round-robin selection on a non-empty list returns a descriptor of the
\* list, whose adapter is then called
RoundRobinSelectsListed ==
  \A r \in Reqs :
    ( /\ StartsAttempt(r) /\ config.strategy = "round-robin"
      /\ Len(config.providers) > 0 ) =>
      /\ req'[r].selected \in NamesOf(config.providers)
      /\ req'[r].pc = "waiting"

\* C33: in every reachable state of a round-robin dispatcher with a
\* non-empty provider list the cursor is a valid index (0 <= cursor < number
\* of configured providers), so every round-robin selection returns a
\* descriptor of the configured list and never an undefined element.
C33_CursorValid == []CursorInRange /\ [][RoundRobinSelectsListed]_vars

\* two selections over two providers: the cursor has wrapped to 0
C33_Witness ==
  /\ config.strategy = "round-robin"
  /\ Len(config.providers) = 2
  /\ nMutations = 0 /\ nAttempts = 2
  /\ strategy.currentIndex = 0
  /\ { req[r].selected : r \in Reqs } = NamesOf(config.providers)

\* call r, alone on a failover dispatcher with two or more providers, has
\* had its first attempt fail on providers[0] with an error that names it
FirstFailedOnFirst(r) ==
  /\ config.strategy = "failover"
  /\ Len(config.providers) >= 2
  /\ nAttempts = 1
  /\ req[r].pc = "delaying" /\ req[r].attempt = 0
  /\ Called(req[r].log, 0) = { config.providers[1].name }
  /\ req[r].errors[1].provider = config.providers[1].name

\* the attempt that follows goes to providers[1]
FallsBackToSecond ==
  \A r \in Reqs :
    (FirstFailedOnFirst(r) /\ StartsAttempt(r)) =>
      /\ ~stats[config.providers[1].name].isHealthy
      /\ req'[r].attempt = 1
      /\ req'[r].pc = "waiting"
      /\ req'[r].selected = config.providers[2].name

\* C34: failover strategy, at least two providers, no attempt on record: if
\* the first attempt of a request (on providers[0]) fails with an error
\* attributed to the provider, the next attempt of the same request selects
\* providers[1].
C34_FailoverFallsBack == [][FallsBackToSecond]_vars

\* the first attempt failed on providers[0], the second was served by
\* providers[1]
C34_Witness ==
  /\ config.strategy = "failover"
  /\ Len(config.providers) = 2
  /\ nAttempts = 2
  /\ \E r \in Reqs :
       /\ req[r].pc = "success" /\ req[r].attempt = 1
       /\ req[r].errors[1].provider = config.providers[1].name
       /\ req[r].response = config.providers[2].name

\* the names of the configured providers other than the first
Later == { config.providers[i].name : i \in 2..Len(config.providers) }

\* a provider other than the first is not selected while it is unhealthy
UnhealthyLaterNotSelected ==
  \A r \in Reqs :
    (StartsAttempt(r) /\ req'[r].selected \in Later) =>
      stats[req'[r].selected].isHealthy

\* a provider other than the first that is unhealthy stays unhealthy
UnhealthyLaterStays ==
  \A p \in Later : ~stats[p].isHealthy => ~stats'[p].isHealthy

\* a provider other than the first that is unhealthy becomes healthy only
\* when an attempt that was already waiting on it succeeds
UnhealthyLaterRecoversInFlight ==
  \A p \in Later :
    (~stats[p].isHealthy /\ stats'[p].isHealthy) =>
      \E r \in Reqs :
        /\ req[r].pc = "waiting" /\ req[r].selected = p
        /\ req'[r].pc = "success"

\* the first provider is selected while unhealthy only if every provider is
FirstSelectedWhenAllUnhealthy ==
  \A r \in Reqs :
    ( /\ StartsAttempt(r) /\ Len(config.providers) > 0
      /\ req'[r].selected = config.providers[1].name
      /\ ~stats[config.providers[1].name].isHealthy ) =>
      \A n \in NamesOf(config.providers) : ~stats[n].isHealthy

StartsLaterAttempt(r) == req[r].pc = "delaying" /\ StartsAttempt(r)

\* the providers earlier attempts of call r were sent to and that have been
\* removed since
RemovedSinceCalled(r) ==
  { req[r].log[i][2] : i \in Events(req[r].log, {"call"}) } \cap removed

\* a later attempt of a call does not select a provider removed since an
\* earlier attempt of the call was sent to it
LaterAttemptAvoidsRemoved ==
  \A r \in Reqs :
    StartsLaterAttempt(r) => req'[r].selected \notin RemovedSinceCalled(r)

\* a later attempt selects from the list and the statistics of the moment
\* it starts: what it selects is in the current list (or comes from a custom
\* function that returns a descriptor of its own), failover goes by the
\* current flags, and a removed provider's adapter is not called
LaterAttemptUsesCurrent ==
  \A r \in Reqs :
    StartsLaterAttempt(r) =>
      LET s == req'[r].selected
          ok == Eligible(config.providers, stats)
      IN /\ \/ s \in NamesOf(config.providers)
            \/ s = "-" /\ config.strategy = "custom"
            \/ s = "-" /\ Len(config.providers) = 0
            \/ s = StrayDescriptor.name
                 /\ config.strategy = "custom" /\ config.customFn = 2
         /\ (config.strategy = "failover" /\ Len(config.providers) > 0) =>
              s = config.providers[IF ok = {} THEN 1
                                   ELSE CHOOSE i \in ok :
                                          \A j \in ok : i <= j].name
         /\ s \in RemovedSinceCalled(r) =>
              /\ config.strategy = "custom" /\ config.customFn = 2
              /\ req'[r].pc # "waiting"
              /\ Called(req'[r].log, req'[r].attempt) = {}

\* C36 as stated: each attempt selects from the provider list and the
\* statistics as they are when the attempt starts; if removeProvider(p)
\* happens during a backoff delay of a request, no later attempt of that
\* request selects p.
C36_LaterAttemptAvoidsRemoved == [][LaterAttemptAvoidsRemoved]_vars

\* C36 amended: each attempt selects from the list and the statistics as
\* they are when it starts; after removeProvider(p) no later attempt of the
\* request is sent to p, and none selects p unless a custom function returns
\* a descriptor of its own; a provider added during the delay is eligible.
C36_LaterAttemptUsesCurrent == [][LaterAttemptUsesCurrent]_vars

\* failover: the first attempt failed on the only provider, a second
\* provider was added, and the second attempt was sent to it
C36_Witness ==
  /\ config.strategy = "failover"
  /\ nMutations = 1 /\ removed = {}
  /\ Len(config.providers) = 2
  /\ \E r \in Reqs :
       /\ req[r].attempt = 1
       /\ Called(req[r].log, 0) = { config.providers[1].name }
       /\ Called(req[r].log, 1) = { config.providers[2].name }
       /\ config.providers[2].name # config.providers[1].name

\* the number of calls that returned a response of provider p
SucceededOn(p) ==
  Cardinality({ r \in Reqs : req[r].pc = "success" /\ req[r].response = p })

\* the number of attempts, over all calls, that failed with an error tagged p
RECURSIVE FailedOn(_, _)
FailedOn(p, rs) ==
  IF rs = {} THEN 0
  ELSE LET r == CHOOSE x \in rs : TRUE
       IN Cardinality({ i \in 1..Len(req[r].errors) :
                          req[r].errors[i].provider = p })
          + FailedOn(p, rs \ {r})

\* C37: several request() calls run concurrently and nobody adds or removes
\* a provider: no statistics update is lost or applied twice.  Once all
\* calls have finished, each provider's successfulRequests is the number of
\* attempts that succeeded on it, its failedRequests the number that failed
\* with an error tagged with its name, and its totalRequests their sum.
C37_NoLostUpdate ==
  (\A r \in Reqs : req[r].pc \in {"idle", "success", "failed"}) =>
    \A p \in DOMAIN stats :
      /\ stats[p].successfulRequests = SucceededOn(p)
      /\ stats[p].failedRequests = FailedOn(p, Reqs)
      /\ stats[p].totalRequests = SucceededOn(p) + FailedOn(p, Reqs)

\* two calls have finished, in any interleaving: one was served by a provider
\* that the other failed on
C37_Witness ==
  /\ \A r \in Reqs : req[r].pc \in {"success", "failed"}
  /\ \E p \in DOMAIN stats, r, o \in Reqs :
       /\ r # o
       /\ req[r].pc = "success" /\ req[r].response = p
       /\ req[r].errors # <<>>
       /\ \E i \in 1..Len(req[o].errors) : req[o].errors[i].provider = p
       /\ stats[p].totalRequests >= 3

\* the probes whose race settles in this step
SettlingProbes ==
  { i \in 1..Len(hc.probes) :
      /\ i <= Len(hc'.probes)
      /\ hc.probes[i].pending /\ ~hc'.probes[i].pending }

\* a probe that settles for a provider without a statistics entry reports
\* the provider false, whatever its outcome, and leaves the statistics alone
OrphanProbeReportsFalse ==
  \A i \in SettlingProbes :
    LET p == hc.probes[i].name
    IN p \notin DOMAIN stats =>
         /\ hc'.status[p] = FALSE
         /\ stats' = stats
         /\ hc'.pc \in {"running", "done"}

\* a sweep that has returned reports every provider it probed, those whose
\* callback was rejected as false
SweepReportsAllProbed ==
  hc.pc = "done" =>
    /\ DOMAIN hc.status = { hc.probes[i].name : i \in 1..Len(hc.probes) }
    /\ \A i \in 1..Len(hc.probes) :
         hc.probes[i].rejected => ~hc.status[hc.probes[i].name]

\* C38: if removeProvider(p) completes while a healthCheck() probe for p is
\* in flight, healthCheck() still resolves with a map that holds every
\* provider it probed, reports p as false whatever the probe's outcome, and
\* leaves no statistics entry for p behind.
C38_RemovedProbeFalse ==
  /\ []SweepReportsAllProbed
  /\ []((hc.pc # "failed") /\ (\A p \in removed : p \notin DOMAIN stats))
  /\ [][OrphanProbeReportsFalse]_vars

\* the sweep has returned; the probe of a provider removed while it was in
\* flight succeeded, and the provider is reported false and has no entry
C38_Witness ==
  /\ hc.pc = "done"
  /\ \E i \in 1..Len(hc.probes) :
       LET p == hc.probes[i].name
       IN /\ hc.probes[i].outcome = "ok"
          /\ hc.probes[i].rejected
          /\ p \in removed
          /\ p \notin DOMAIN stats
          /\ hc.status[p] = FALSE

\* the delays call r has awaited so far, in order
Delays(r) ==
  LET D == Events(req[r].log, {"delay"})
  IN [ k \in 1..Cardinality(D) |-> req[r].log[Kth(D, k)][3] ]

\* C39: maxRetries and retryDelay fall back to their defaults (3 attempts,
\* 1000 ms) when unset and also when configured as 0: a dispatcher with
\* maxRetries = 0 still makes up to 3 attempts per request, and one with
\* retryDelay = 0 still backs off 1000 ms, 2000 ms, ...
C39_ZeroMeansDefault ==
  /\ config.maxRetries \in {Unset, 0} =>
       \A r \in Reqs :
         /\ req[r].attempt <= 2
         /\ req[r].pc = "failed" =>
              (req[r].attempt = 2 /\ Len(req[r].errors) = 3)
         /\ (req[r].pc = "delaying") => req[r].attempt < 2
  /\ config.retryDelay \in {Unset, 0} =>
       \A r \in Reqs :
         \A k \in 1..Len(Delays(r)) : Delays(r)[k] = 1000 * Pow2(k - 1)

\* maxRetries = 0 and retryDelay = 0 as written: a call has failed after
\* three attempts with delays of 1000 ms and 2000 ms
C39_Witness ==
  /\ config.maxRetries = 0 /\ config.retryDelay = 0
  /\ \E r \in Reqs :
       /\ req[r].pc = "failed"
       /\ Len(req[r].errors) = 3
       /\ Delays(r) = << 1000, 2000 >>

\* the step leaves every statistics entry and the configured list as they are
KeepsStatsAndList == stats' = stats /\ config' = config

\* the step is a getStats() call
TakesSnapshot == snap'.calls = snap.calls + 1

\* the step ends an attempt: the post-attempt statistics update
RecordsAttempt ==
  \E r \in Reqs : req[r].pc = "waiting" /\ req'[r].pc # "waiting"

\* selecting a provider and getStats() keep the statistics and the list;
\* getHealthyProviders() is a value computed from them (a new list); what
\* changes them is the end of an attempt, the settling of a probe of a
\* sweep, addProvider or removeProvider
FrameOfOperations ==
  /\ (\E r \in Reqs : StartsAttempt(r)) => KeepsStatsAndList
  /\ TakesSnapshot =>
       /\ KeepsStatsAndList
       /\ SnapshotView' = stats
       /\ GetHealthyProviders' = GetHealthyProviders
  /\ ~KeepsStatsAndList =>
       \/ RecordsAttempt
       \/ SettlingProbes # {}
       \/ Reconfigures

\* C40: the statistics map and the configured provider list are changed
\* only by the post-attempt bookkeeping step, the health sweep, addProvider
\* and removeProvider: selecting a provider (any strategy variant),
\* getStats() and getHealthyProviders() leave all statistics and the
\* provider list unchanged.
C40_FrameOfOperations == [][FrameOfOperations]_vars

\* getStats() was called after a failed attempt had been recorded and a
\* provider added or removed: the statistics are what the snapshot saw, and
\* getHealthyProviders() leaves a provider out
C40_Witness ==
  /\ snap.taken /\ snap.at = stats
  /\ nMutations = 1
  /\ \E n \in DOMAIN stats : stats[n].totalRequests = 1
  /\ GetHealthyProviders # config.providers
====
